---- MODULE Spec2Model ----
(***************************************************************************)
(* Write-operation approval gate of schwab-mcp.                            *)
(*                                                                         *)
(* Tool calls (tools/__init__.py, tools/_registration.py) run as asyncio   *)
(* tasks on one event loop together with the Discord reaction handlers     *)
(* (approvals/discord.py).  A step of the model is what one task does      *)
(* between two suspension points (awaits that really yield).  Calls into   *)
(* discord.py's HTTP API finish with the outcomes its documentation gives: *)
(* success or discord.HTTPException.  Cancellation of a tool call is a     *)
(* separate step that may hit any suspension point once.                   *)
(***************************************************************************)
EXTENDS Integers, Sequences, FiniteSets, TLC

\* ---------------------------------------------------------------- bounds
MaxHandlers == 2       \* reaction handler tasks alive at the same time
MaxEvents == 2         \* reaction events on pending prompts in one run
TimeoutTicks == 2      \* settings.timeout_seconds, in clock ticks
TicksPerSecond == 2    \* clock resolution: ticks in one second
MaxKeepalives == 1     \* rounds of the keep-alive loop that send their update
CacheTtl == 2          \* PostgresTokenStorage.cache_ttl, in clock ticks
MaxWall == 3           \* clock ticks in one run of the token storage
DateMax == 200         \* datetime.date.max, as a day number

Calls == {1}             \* tool invocations (one request and its reaction handlers)
Handlers == 1..MaxHandlers
LifeTasks == {1, 2}      \* tasks that call start() and stop() on the manager

\* ------------------------------------------------------- program constants
ChannelId == 7                       \* settings.channel_id
OtherChannel == 8                    \* any channel that is not the configured one
ForeignMessage == 0                  \* a message no require() call posted
BotUser == 1                         \* the bot's own identity (user.bot)
UnsetChannel == -1                   \* --discord-channel-id not given (None)
ProgressInterval == 5                \* _APPROVAL_PROGRESS_INTERVAL, in seconds
WindowDays == 60                     \* _EXPIRATION_WINDOW_DAYS
NoDate == -1                         \* from_date or to_date not given (None)
approver_ids == {42, 43}             \* settings.approver_ids (non-empty, discord.py:58)
Users == {BotUser, 42, 43, 99}       \* 99 is not an approver
Emojis == {"check", "cross", "thumbsup"}   \* the two decision symbols and another one
Tools == {"get_orders", "cancel_order"}
Decisions == {"APPROVED", "DENIED", "EXPIRED"}

IsWrite(t) == t = "cancel_order"     \* @register(write=True), getattr(func, "_write")

VARIABLES
  allow_write,       \* cli.py: write mode flag handed to the server
  approval_manager,  \* cli.py: "noop" | "discord"
  exposed,           \* tools registered on the FastMCP server
  pc,                \* per call: position of the tool-call task
  tool,              \* per call: tool invoked
  hasToken,          \* per call: _has_progress_token(context)
  ctxArg,            \* per call: what is bound to the tool's context parameter
  cancelled,         \* per call: the task was cancelled by the caller
  reqOut,            \* per call: how require() ended ("none" while it has not)
  requireCalls,      \* per call: number of approvals.require() calls made
  funcCalls,         \* per call: number of calls of the wrapped tool function
  keepalive,         \* per call: state of the keep-alive task
  runner,            \* DiscordApprovalManager._runner
  ready,             \* DiscordApprovalManager._ready
  channel,           \* DiscordApprovalManager._channel is cached
  pending,           \* keys of DiscordApprovalManager._pending (message ids)
  message,           \* per call: id of the prompt message posted (0: none)
  nextMessageId,     \* ids the platform hands out
  future,            \* per call: state of the decision future
  elapsed,           \* per call: ticks since wait_for started
  timedOut,          \* per call: wait_for raised TimeoutError
  attachFailed,      \* per call: add_reaction raised HTTPException
  handler,           \* per handler task: its position and the event it serves
  nEvents,           \* reaction events on pending prompts so far
  edits,             \* per call: _finalize_message calls on its prompt, in order
  shown,             \* per call: what its prompt message shows now
  removals,          \* reactions the manager tried to remove: <<message, user>>
  invalidState,      \* per call: set_result calls that raised InvalidStateError
  warnings,          \* per call: context.warning messages sent to the caller
  progress,          \* per call: context.report_progress calls that came back, in order
  life,              \* per lifecycle task: its position in start() or stop()
  cli,               \* cli.py: the options of the server command and how it ended
  lastEvent,         \* the reaction event the last handler was started for
  span,              \* server.py: the server lifespan, its teardown steps and log
  wall,              \* token_storage.py: time.time(), in clock ticks
  cachedToken,       \* PostgresTokenStorage._cached_token
  cacheTime,         \* PostgresTokenStorage._cache_time
  tokenRow,          \* the row of schwab_tokens for the storage key
  tokTask,           \* per task: its call into the token storage
  ingest,            \* db/_ingestion.py: one ingest_option_chain call
  win,               \* tools/options.py: a call's dates and the window sent to the broker
  sql                \* db/_manager.py: the CloudSQLManager and one call on it

vars == <<allow_write, approval_manager, exposed, pc, tool, hasToken, ctxArg, cancelled,
          reqOut, requireCalls, funcCalls, keepalive, runner, ready, channel,
          pending, message, nextMessageId, future, elapsed, timedOut,
          attachFailed, handler,
          nEvents, edits, shown, removals, invalidState, warnings, progress,
          life, cli, lastEvent, span,
          wall, cachedToken, cacheTime, tokenRow, tokTask, ingest, win, sql>>

wrapperVars == <<pc, reqOut, funcCalls, keepalive>>
configVars == <<allow_write, approval_manager, exposed>>
callVars == <<tool, hasToken, ctxArg>>
clientVars == <<runner, ready, channel>>
handlerVars == <<handler, nEvents, removals, invalidState>>
editVars == <<edits, shown>>
waitVars == <<elapsed, timedOut, attachFailed>>
storeVars == <<wall, cachedToken, cacheTime, tokenRow, tokTask>>
dataVars == <<storeVars, ingest, win, sql>>
serverVars == <<life, cli, lastEvent, span, dataVars>>
gateVars == <<configVars, callVars, cancelled, wrapperVars, requireCalls,
              clientVars, pending, message, nextMessageId, future, waitVars,
              handlerVars, editVars, warnings, progress, life, cli, lastEvent,
              span>>

\* ------------------------------------------------------------ cli.py server
\* jesus: --jesus-take-the-wheel; discord: token, channel id and approvers given
AllowWrite(jesus, discord) == jesus \/ discord

ManagerFor(jesus, discord) ==
  IF jesus THEN "noop" ELSE IF discord THEN "discord" ELSE "noop"

\* ------------------------------------------------- tools/__init__.py
RegisterToolsAll(allow) == Tools

register_tools(allow) == {t \in Tools : ~(IsWrite(t) /\ ~allow)}

IdleHandler == [pc |-> "idle", msg |-> 0, user |-> 0, dec |-> "none"]

\* a lifecycle task: where it is, whether its start() spawned the runner,
\* whether ready was set when its start() returned, and how the runner task
\* it awaits in stop() ended if that is no more self._runner
LifeAt(p, spawned, sawReady, res) ==
  [pc |-> p, spawned |-> spawned, sawReady |-> sawReady, res |-> res]

IdleLife == LifeAt("idle", FALSE, FALSE, "none")

\* server.py:31: a lifespan the server has not entered yet
IdleSpan ==
  [pc |-> "idle", started |-> <<>>, body |-> "none", attempts |-> <<>>,
   results |-> <<>>, logs |-> <<>>, propagated |-> "none"]

\* no reaction event yet
NoEvent == [msg |-> ForeignMessage, channel |-> OtherChannel, emoji |-> "none",
            user |-> BotUser]

\* the options of a server command: --jesus-take-the-wheel, --discord-token,
\* --discord-channel-id, the --discord-approver values and the comma-separated
\* items of SCHWAB_MCP_DISCORD_APPROVERS; outcome is "none" until it has run
Options(jesus, token, chan, flag, env, outcome) ==
  [jesus |-> jesus, token |-> token, channel |-> chan, flag |-> flag,
   env |-> env, outcome |-> outcome]

\* cli.py:345-381: the options the server was started with
ConfigInit(J, D) ==
  \E jesus \in J, discord \in D :
    /\ cli = IF discord
             THEN Options(jesus, "tok", ChannelId, <<"42", "43">>, <<>>, "serving")
             ELSE Options(jesus, "unset", UnsetChannel, <<>>, <<>>, "serving")
    /\ allow_write = AllowWrite(jesus, discord)
    /\ approval_manager = ManagerFor(jesus, discord)
    /\ exposed = register_tools(AllowWrite(jesus, discord))

\* ---------------------------------------- remote/token_storage.py: values
TokTasks == {1, 2}       \* tasks that call into the token storage

\* token dictionaries: the empty one and two OAuth tokens
EmptyToken == {}
TokenA == {<<"access_token", "a">>}
TokenB == {<<"access_token", "b">>, <<"refresh_token", "r">>}
OAuthTokens == {EmptyToken, TokenA, TokenB}

\* token_storage.py:56-57, 174-175: _cached_token is None, or a dictionary
NoCache == [some |-> FALSE, value |-> EmptyToken]
CacheOf(token) == [some |-> TRUE, value |-> token]

\* token_storage.py:147: json.dumps(token), the text of a JSON object
Dumps(token) == [kind |-> "object", members |-> token]

\* a JSON text that is not an object
ArrayText == [kind |-> "array", members |-> EmptyToken]

\* token_storage.py:97-102: json.loads and the isinstance test
Loads(text) ==
  [isDict |-> text.kind = "object",
   value |-> IF text.kind = "object" THEN text.members ELSE EmptyToken]

\* the row of the storage key: absent, or its token_data
NoRow == [present |-> FALSE, data |-> ArrayText]
RowOf(text) == [present |-> TRUE, data |-> text]

\* what a call into the storage returned or raised
Result(kind, token) == [kind |-> kind, value |-> token]
NoResult == Result("none", EmptyToken)

IdleTokTask ==
  [pc |-> "idle", op |-> "none", arg |-> EmptyToken, ret |-> NoResult,
   queried |-> FALSE]

\* token_storage.py:46-57 on a database without a row for the key
StoreInit ==
  /\ wall = 0
  /\ cachedToken = NoCache
  /\ cacheTime = 0
  /\ tokenRow = NoRow
  /\ tokTask = [t \in TokTasks |-> IdleTokTask]

\* ------------------------------------------------ db/_ingestion.py: values
\* _ingestion.py:86-95: what a strike of an expiration date maps to: a value
\* that is no list, or a list with some contract dictionaries and some other
\* items
Scalar == [isList |-> FALSE, contracts |-> 0, others |-> 0]
ListOf(n, m) == [isList |-> TRUE, contracts |-> n, others |-> m]

\* _ingestion.py:76-84: callExpDateMap or putExpDateMap: absent or no
\* dictionary, or the strikes of its expiration dates
NoMap == [isDict |-> FALSE, strikes |-> <<>>]
MapOf(strikes) == [isDict |-> TRUE, strikes |-> strikes]

ExpDateMaps ==
  {NoMap, MapOf(<<>>), MapOf(<<Scalar>>), MapOf(<<ListOf(0, 1)>>),
   MapOf(<<ListOf(1, 1)>>), MapOf(<<ListOf(1, 0), Scalar, ListOf(1, 0)>>)}

\* the data handed to ingest_option_chain: a chain dictionary or anything else
NotADict == [isDict |-> FALSE, calls |-> NoMap, puts |-> NoMap]
Chain(calls, puts) == [isDict |-> TRUE, calls |-> calls, puts |-> puts]
Payloads == {NotADict} \cup {Chain(c, p) : c, p \in ExpDateMaps}

\* ids the database hands out for a snapshot
SnapshotIds == {1, 2}

\* _ingestion.py:21: int | None, or the exception that left the call
Returned(kind, id) == [kind |-> kind, id |-> id]

IdleIngest ==
  [pc |-> "idle", db |-> "noop", data |-> NotADict, calls |-> <<>>,
   snapshot |-> "none", batch |-> "none", ret |-> Returned("none", 0)]

IngestInit == ingest = IdleIngest

\* --------------------------------------------------- tools/options.py: values
\* the window handed to client.get_option_chain, or the exception raised
Window(from, to) == [from |-> from, to |-> to, err |-> "none"]
NoWindow(err) == [from |-> NoDate, to |-> NoDate, err |-> err]

\* a tool call that has not computed its window yet
WinOf(today, from, to) ==
  [today |-> today, from |-> from, to |-> to, done |-> FALSE,
   out |-> NoWindow("none")]

WinInit == win = WinOf(0, NoDate, NoDate)

\* ---------------------------------------------------- db/_manager.py: values
\* exceptions of the driver and the connector: OSError, a subclass of it, the
\* driver's InterfaceError, and two that are neither
SqlErrors == {"OSError", "ConnectionResetError", "InterfaceError",
              "ProgrammingError", "AttributeError"}

\* how an awaited step ended: not yet, normally, cancelled, or with an exception
SqlEnds == {"none", "ok", "cancel"} \cup SqlErrors

\* _manager.py:50-51: the manager (conn) and the course of one execute or
\* execute_many call: the runs of the statement, the stop() and start() calls
\* of its reconnect and how each step ended
SqlAt(p, op, conn, runs, stops, starts, first, stopped, started, second) ==
  [pc |-> p, op |-> op, conn |-> conn, runs |-> runs, stops |-> stops,
   starts |-> starts, first |-> first, stopped |-> stopped,
   started |-> started, second |-> second]

SqlIdle(conn) == SqlAt("idle", "none", conn, 0, 0, 0, "none", "none", "none", "none")

SqlInit == sql = SqlIdle("none")

DataInit == StoreInit /\ IngestInit /\ WinInit /\ SqlInit

\* discord.py:57-79 and a server that has served no tool call of C yet
StateInit(C) ==
  /\ pc = [c \in C |-> "idle"]
  /\ tool = [c \in C |-> "none"]
  /\ hasToken = [c \in C |-> FALSE]
  /\ ctxArg = [c \in C |-> "none"]
  /\ cancelled = [c \in C |-> FALSE]
  /\ reqOut = [c \in C |-> "none"]
  /\ requireCalls = [c \in C |-> 0]
  /\ funcCalls = [c \in C |-> 0]
  /\ keepalive = [c \in C |-> "none"]
  /\ runner = "none"
  /\ ready = FALSE
  /\ channel = FALSE
  /\ pending = {}
  /\ message = [c \in C |-> 0]
  /\ nextMessageId = 1
  /\ future = [c \in C |-> "none"]
  /\ elapsed = [c \in C |-> 0]
  /\ timedOut = [c \in C |-> FALSE]
  /\ attachFailed = [c \in C |-> FALSE]
  /\ handler = [h \in Handlers |-> IdleHandler]
  /\ nEvents = 0
  /\ edits = [c \in C |-> <<>>]
  /\ shown = [c \in C |-> "none"]
  /\ removals = {}
  /\ invalidState = [c \in C |-> 0]
  /\ warnings = [c \in C |-> <<>>]
  /\ progress = [c \in C |-> <<>>]
  /\ life = [t \in LifeTasks |-> IdleLife]
  /\ lastEvent = NoEvent
  /\ span = IdleSpan
  /\ DataInit

Init == ConfigInit(BOOLEAN, BOOLEAN) /\ StateInit(Calls)


\* --------------------------------------- tools/_registration.py: the wrapper
Terminal == {"returned", "PermissionError", "TimeoutError", "raised",
             "cancelled", "rejected", "RuntimeError", "TypeError"}

\* positions inside DiscordApprovalManager.require
InRequire == {"r_start", "r_ready", "r_fetch", "r_send", "r_react1",
              "r_react2", "r_failclosed", "r_wait", "r_expired"}

BranchUnlessDenied(decision) ==
  IF decision # "DENIED" THEN "w_func" ELSE "w_warning"

\* _registration.py:194-209: the branch on the decision
Branch(decision) ==
  IF decision = "APPROVED" THEN "w_func" ELSE "w_warning"

\* _registration.py:185-209: what follows the finally block
AfterKeepalive(out, tok) ==
  IF out \in {"raised", "cancelled"} THEN out
  ELSE IF tok THEN "w_completion"
  ELSE Branch(out)

CancelKeepalive(ka) == IF ka = "running" THEN "cancelling" ELSE ka

AfterFinallyNoAwait(ka, out, tok) == AfterKeepalive(out, tok)

\* _registration.py:179-183: cancel the keep-alive task and await it
AfterFinally(ka, out, tok) ==
  IF CancelKeepalive(ka) = "cancelling" THEN "w_ka_await"
  ELSE AfterKeepalive(out, tok)

\* the tool-call task stays inside require(), now suspended at position p
Stay(c, p, kaNow) ==
  /\ pc' = [pc EXCEPT ![c] = p]
  /\ keepalive' = [keepalive EXCEPT ![c] = kaNow]
  /\ UNCHANGED <<reqOut, funcCalls>>

\* require() ended with out (a decision, "raised" or "cancelled"): the wrapper
\* runs its finally block and goes on to its next suspension point
Resume(c, out, kaNow, tok) ==
  LET next == AfterFinally(kaNow, out, tok) IN
  /\ reqOut' = [reqOut EXCEPT ![c] = out]
  /\ keepalive' = [keepalive EXCEPT ![c] = CancelKeepalive(kaNow)]
  /\ pc' = [pc EXCEPT ![c] = next]
  /\ funcCalls' = [funcCalls EXCEPT ![c] = IF next = "w_func" THEN @ + 1 ELSE @]

\* ------------------------------ approvals/discord.py: start, _ensure_channel
Lookups == {"hit", "miss", "unmessageable"}

ReadyWaitSkipped(rd) == TRUE

\* discord.py:216: await self._ready.wait() returns once the event is set
ReadyWaitOver(rd) == rd

\* discord.py:217-231 after the ready wait; lk is what get_channel returns
EnsureChannel(c, kaNow, tok, lk) ==
  IF channel THEN Stay(c, "r_send", kaNow) /\ UNCHANGED channel
  ELSE IF lk = "hit" THEN Stay(c, "r_send", kaNow) /\ channel' = TRUE
  ELSE IF lk = "miss" THEN Stay(c, "r_fetch", kaNow) /\ UNCHANGED channel
  ELSE Resume(c, "raised", kaNow, tok) /\ UNCHANGED channel

\* _registration.py:178 -> base.py:45 / discord.py:103-105, up to the first
\* suspension point
RequireEnter(c, kaNow, tok, lk) ==
  /\ requireCalls' = [requireCalls EXCEPT ![c] = @ + 1]
  /\ IF approval_manager = "noop"
     THEN Resume(c, "APPROVED", kaNow, tok) /\ UNCHANGED clientVars
     ELSE /\ runner' = IF runner = "none" THEN "running" ELSE runner
          /\ UNCHANGED ready
          /\ IF ReadyWaitOver(ready) THEN EnsureChannel(c, kaNow, tok, lk)
             ELSE /\ Stay(c, IF runner = "none" THEN "r_start" ELSE "r_ready", kaNow)
                  /\ UNCHANGED channel

\* what a tool call may find bound to its context parameter: a SchwabContext,
\* the MCP layer's Context, a value of another type, or nothing
Contexts == {"schwab", "mcp", "other", "unbound"}

\* _registration.py:86-93, 139-151: the isinstance tests on the bound value
IsContext(ctx) == ctx \in {"schwab", "mcp"}

\* _registration.py:153-156 for a write tool (the approval wrapper is the
\* outer one, 296-298); 94-99 for a read tool, whose call without the context
\* argument fails with Python's own TypeError
ContextFailure(write) == IF write THEN "RuntimeError" ELSE "TypeError"

\* a call of a registered tool function, with ctx bound to the context parameter
InvokeWith(c, t, tok, lk, ctx) ==
  /\ pc[c] = "idle"
  /\ tool' = [tool EXCEPT ![c] = t]
  /\ hasToken' = [hasToken EXCEPT ![c] = tok /\ IsContext(ctx)]
  /\ ctxArg' = [ctxArg EXCEPT ![c] = ctx]
  /\ IF t \notin exposed
     THEN /\ pc' = [pc EXCEPT ![c] = "rejected"]
          /\ UNCHANGED <<reqOut, funcCalls, keepalive, requireCalls, clientVars>>
     ELSE IF ~IsContext(ctx)
     THEN /\ pc' = [pc EXCEPT ![c] = ContextFailure(IsWrite(t))]
          /\ UNCHANGED <<reqOut, funcCalls, keepalive, requireCalls, clientVars>>
     ELSE IF ~IsWrite(t)
     THEN /\ pc' = [pc EXCEPT ![c] = "w_func"]
          /\ funcCalls' = [funcCalls EXCEPT ![c] = @ + 1]
          /\ UNCHANGED <<reqOut, keepalive, requireCalls, clientVars>>
     ELSE IF tok
     THEN /\ pc' = [pc EXCEPT ![c] = "w_progress0"]
          /\ UNCHANGED <<reqOut, funcCalls, keepalive, requireCalls, clientVars>>
     ELSE RequireEnter(c, "none", tok, lk)
  /\ UNCHANGED <<serverVars, warnings, progress, configVars, cancelled, pending, message, nextMessageId, future,
                 waitVars, handlerVars, editVars>>

\* a tool call arrives at the MCP server, which supplies its own context
Invoke(c, t, tok, lk) == InvokeWith(c, t, tok, lk, "mcp")

\* _registration.py:174: report_progress(0, 1, _APPROVAL_WAIT_MESSAGE)
ProgressInitial ==
  [progress |-> 0, total |-> 1, message |-> "waiting", seconds |-> 0]

\* _registration.py:229-237: the update of round n of the keep-alive loop
ProgressKeepalive(n) ==
  [progress |-> 0, total |-> 1, message |-> "elapsed",
   seconds |-> n * ProgressInterval]

ProgressFinalAlwaysApproved(decision) ==
  [progress |-> 1, total |-> 1, message |-> "approved", seconds |-> 0]

\* _registration.py:252-258: report_progress(1, 1, message)
ProgressFinal(decision) ==
  [progress |-> 1, total |-> 1, seconds |-> 0,
   message |-> IF decision = "APPROVED" THEN "approved" ELSE "not_approved"]

\* _registration.py:174-178: the initial progress update was sent (or raised)
Progress0Done(c, ok, lk) ==
  /\ pc[c] = "w_progress0"
  /\ progress' = [progress EXCEPT ![c] = Append(@, ProgressInitial)]
  /\ IF ok
     THEN RequireEnter(c, "running", TRUE, lk)
     ELSE /\ pc' = [pc EXCEPT ![c] = "raised"]
          /\ UNCHANGED <<reqOut, funcCalls, keepalive, requireCalls, clientVars>>
  /\ UNCHANGED <<serverVars, warnings, configVars, callVars, cancelled, pending, message, nextMessageId,
                 future, waitVars, handlerVars, editVars>>

\* discord.py:87 / discord.py:216: the ready wait is over
ReadyWake(c, lk) ==
  /\ pc[c] \in {"r_start", "r_ready"}
  /\ ReadyWaitOver(ready)
  /\ EnsureChannel(c, keepalive[c], hasToken[c], lk)
  /\ UNCHANGED <<serverVars, warnings, progress, configVars, callVars, cancelled, requireCalls, runner, ready,
                 pending, message, nextMessageId, future, waitVars,
                 handlerVars, editVars>>

\* discord.py:222-231: fetch_channel came back
FetchDone(c, res) ==
  /\ pc[c] = "r_fetch"
  /\ IF res = "ok"
     THEN Stay(c, "r_send", keepalive[c]) /\ channel' = TRUE
     ELSE Resume(c, "raised", keepalive[c], hasToken[c]) /\ UNCHANGED channel
  /\ UNCHANGED <<serverVars, warnings, progress, configVars, callVars, cancelled, requireCalls, runner, ready,
                 pending, message, nextMessageId, future, waitVars,
                 handlerVars, editVars>>

\* discord.py:107: channel.send came back
SendDone(c, ok) ==
  /\ pc[c] = "r_send"
  /\ IF ok
     THEN /\ Stay(c, "r_react1", keepalive[c])
          /\ message' = [message EXCEPT ![c] = nextMessageId]
          /\ nextMessageId' = nextMessageId + 1
          /\ shown' = [shown EXCEPT ![c] = "pending"]
     ELSE /\ Resume(c, "raised", keepalive[c], hasToken[c])
          /\ UNCHANGED <<message, nextMessageId, shown>>
  /\ UNCHANGED <<serverVars, warnings, progress, configVars, callVars, cancelled, requireCalls, clientVars,
                 pending, future, waitVars, handlerVars, edits>>

\* ------------------------------------- approvals/discord.py: require, go on
\* int(self._settings.timeout_seconds), discord.py:143
TimeoutNote == TimeoutTicks \div TicksPerSecond

TimeoutDecisionDenied == "DENIED"

\* discord.py:137
TimeoutDecision == "EXPIRED"

PopUnlessCancelled(c, how) ==
  IF how = "cancelled" THEN pending ELSE pending \ {message[c]}

\* discord.py:145-147: the finally block of require
FinallyPop(c, how) == pending \ {message[c]}

\* one _finalize_message call (discord.py:252-281): the embed it builds
Edit(decision, actor, note, seconds) ==
  [decision |-> decision, actor |-> actor, note |-> note, seconds |-> seconds]

\* discord.py:282-287: message.edit replaces the content unless it raises
\* HTTPException (ok = FALSE), which is logged and swallowed
Finalize(c, embed, ok) ==
  /\ edits' = [edits EXCEPT ![c] = Append(@, embed)]
  /\ shown' = [shown EXCEPT ![c] = IF ok THEN embed.decision ELSE @]

EditFailureRaises(decision, ok) == IF ok THEN decision ELSE "raised"

\* discord.py:282-287: how _finalize_message ends for its caller, which goes
\* on with its decision whether message.edit raised HTTPException or not
EditOutcome(decision, ok) == decision

ReactionFailureReturnsApproved == "APPROVED"

\* discord.py:122: what require returns when a reaction could not be attached
ReactionFailureDecision == "DENIED"

\* discord.py:109, 111-114: add_reaction of the approve symbol came back
React1Done(c, ok) ==
  /\ pc[c] = "r_react1"
  /\ Stay(c, IF ok THEN "r_react2" ELSE "r_failclosed", keepalive[c])
  /\ attachFailed' = [attachFailed EXCEPT ![c] = ~ok]
  /\ UNCHANGED <<serverVars, warnings, progress, configVars, callVars, cancelled, requireCalls, clientVars,
                 pending, message, nextMessageId, future, elapsed, timedOut,
                 handlerVars, editVars>>

\* discord.py:110-114, 124-135: add_reaction of the deny symbol came back; on
\* success the pending entry is registered and wait_for starts
React2Done(c, ok) ==
  /\ pc[c] = "r_react2"
  /\ IF ok
     THEN /\ Stay(c, "r_wait", keepalive[c])
          /\ future' = [future EXCEPT ![c] = "pending"]
          /\ pending' = pending \cup {message[c]}
          /\ elapsed' = [elapsed EXCEPT ![c] = 0]
          /\ UNCHANGED attachFailed
     ELSE /\ Stay(c, "r_failclosed", keepalive[c])
          /\ attachFailed' = [attachFailed EXCEPT ![c] = TRUE]
          /\ UNCHANGED <<future, pending, elapsed>>
  /\ UNCHANGED <<serverVars, warnings, progress, configVars, callVars, cancelled, requireCalls, clientVars,
                 message, nextMessageId, timedOut, handlerVars, editVars>>

\* discord.py:115-122: the prompt was finalized as denied (edit may have failed)
FailClosedDone(c, ok) ==
  /\ pc[c] = "r_failclosed"
  /\ Finalize(c, Edit("DENIED", 0, "reactions", 0), ok)
  /\ Resume(c, EditOutcome(ReactionFailureDecision, ok), keepalive[c], hasToken[c])
  /\ UNCHANGED <<serverVars, warnings, progress, configVars, callVars, cancelled, requireCalls, clientVars,
                 pending, message, nextMessageId, future, waitVars,
                 handlerVars>>

\* discord.py:133-135, 145-149: the future has a result, wait_for returns it
WaitDone(c) ==
  /\ pc[c] = "r_wait"
  /\ future[c] \in {"APPROVED", "DENIED"}
  /\ pending' = FinallyPop(c, "returned")
  /\ Resume(c, future[c], keepalive[c], hasToken[c])
  /\ UNCHANGED <<serverVars, warnings, progress, configVars, callVars, cancelled, requireCalls, clientVars,
                 message, nextMessageId, future, waitVars, handlerVars,
                 editVars>>

\* discord.py:133-137: the timeout elapsed before the future was done; wait_for
\* cancels the future and raises TimeoutError
TimeoutFire(c) ==
  /\ pc[c] = "r_wait"
  /\ future[c] = "pending"
  /\ elapsed[c] = TimeoutTicks
  /\ future' = [future EXCEPT ![c] = "cancelled"]
  /\ timedOut' = [timedOut EXCEPT ![c] = TRUE]
  /\ Stay(c, "r_expired", keepalive[c])
  /\ UNCHANGED <<serverVars, warnings, progress, configVars, callVars, cancelled, requireCalls, clientVars,
                 pending, message, nextMessageId, elapsed, attachFailed,
                 handlerVars, editVars>>

\* discord.py:138-149: the prompt was finalized as expired (edit may have failed)
ExpiredDone(c, ok) ==
  /\ pc[c] = "r_expired"
  /\ Finalize(c, Edit(TimeoutDecision, 0, "timeout", TimeoutNote), ok)
  /\ pending' = FinallyPop(c, "returned")
  /\ Resume(c, EditOutcome(TimeoutDecision, ok), keepalive[c], hasToken[c])
  /\ UNCHANGED <<serverVars, warnings, progress, configVars, callVars, cancelled, requireCalls, clientVars,
                 message, nextMessageId, future, waitVars, handlerVars>>

Waiting(c) == pc[c] = "r_wait" /\ future[c] = "pending"

\* time passes for every wait_for in progress; a due timeout fires first
Tick ==
  /\ \E c \in DOMAIN pc : Waiting(c)
  /\ \A c \in DOMAIN pc : Waiting(c) => elapsed[c] < TimeoutTicks
  /\ elapsed' = [c \in DOMAIN pc |->
                   IF Waiting(c) THEN elapsed[c] + 1 ELSE elapsed[c]]
  /\ UNCHANGED <<serverVars, warnings, progress, configVars, callVars, cancelled, wrapperVars, requireCalls,
                 clientVars, pending, message, nextMessageId, future, timedOut,
                 attachFailed,
                 handlerVars, editVars>>

\* ------------------------------------------- the rest of the wrapper's steps
\* the caller cancels the tool call while its task is suspended
Cancel(c) ==
  /\ ~cancelled[c]
  /\ pc[c] \in InRequire \cup {"w_progress0", "w_ka_await", "w_completion",
                               "w_func", "w_warning"}
  /\ cancelled' = [cancelled EXCEPT ![c] = TRUE]
  /\ IF pc[c] \in InRequire
     THEN /\ pending' = IF pc[c] \in {"r_wait", "r_expired"}
                        THEN FinallyPop(c, "cancelled") ELSE pending
          /\ future' = [future EXCEPT ![c] =
                          IF pc[c] = "r_wait" /\ @ = "pending" THEN "cancelled" ELSE @]
          /\ Resume(c, "cancelled", keepalive[c], hasToken[c])
     ELSE /\ pc' = [pc EXCEPT ![c] = IF @ = "w_ka_await" THEN @ ELSE "cancelled"]
          /\ UNCHANGED <<pending, future, reqOut, funcCalls, keepalive>>
  /\ UNCHANGED <<serverVars, warnings, progress, configVars, callVars, requireCalls, clientVars, message,
                 nextMessageId, waitVars, handlerVars, editVars>>

\* _registration.py:229-237: a round of the keep-alive loop sent its update
KeepaliveEmit(c) ==
  /\ keepalive[c] = "running"
  /\ Len(progress[c]) <= MaxKeepalives
  /\ progress' = [progress EXCEPT ![c] = Append(@, ProgressKeepalive(Len(@)))]
  /\ UNCHANGED <<serverVars, warnings, configVars, callVars, cancelled, pc, reqOut, funcCalls,
                 keepalive, requireCalls, clientVars, pending, message, nextMessageId,
                 future, waitVars, handlerVars, editVars>>

\* _registration.py:240-241: report_progress raised inside the keep-alive task
KeepaliveFails(c) ==
  /\ keepalive[c] = "running"
  /\ keepalive' = [keepalive EXCEPT ![c] = "done"]
  /\ progress' = [progress EXCEPT ![c] = Append(@, ProgressKeepalive(Len(@)))]
  /\ UNCHANGED <<serverVars, warnings, configVars, callVars, cancelled, pc, reqOut, funcCalls,
                 requireCalls, clientVars, pending, message, nextMessageId,
                 future, waitVars, handlerVars, editVars>>

\* _registration.py:238-239: the keep-alive task takes its cancellation
KeepaliveCancelled(c) ==
  /\ keepalive[c] = "cancelling"
  /\ keepalive' = [keepalive EXCEPT ![c] = "done"]
  /\ UNCHANGED <<serverVars, warnings, progress, configVars, callVars, cancelled, pc, reqOut, funcCalls,
                 requireCalls, clientVars, pending, message, nextMessageId,
                 future, waitVars, handlerVars, editVars>>

\* _registration.py:182-185: the awaited keep-alive task is done
KeepaliveAwaited(c) ==
  /\ pc[c] = "w_ka_await"
  /\ keepalive[c] = "done"
  /\ LET next == AfterKeepalive(reqOut[c], hasToken[c]) IN
       /\ pc' = [pc EXCEPT ![c] = next]
       /\ funcCalls' = [funcCalls EXCEPT ![c] = IF next = "w_func" THEN @ + 1 ELSE @]
  /\ UNCHANGED <<serverVars, warnings, progress, configVars, callVars, cancelled, reqOut, keepalive,
                 requireCalls, clientVars, pending, message, nextMessageId,
                 future, waitVars, handlerVars, editVars>>

\* _registration.py:185, 246-260: the final progress update was sent (or failed)
CompletionDone(c) ==
  /\ pc[c] = "w_completion"
  /\ progress' = [progress EXCEPT ![c] = Append(@, ProgressFinal(reqOut[c]))]
  /\ LET next == Branch(reqOut[c]) IN
       /\ pc' = [pc EXCEPT ![c] = next]
       /\ funcCalls' = [funcCalls EXCEPT ![c] = IF next = "w_func" THEN @ + 1 ELSE @]
  /\ UNCHANGED <<serverVars, warnings, configVars, callVars, cancelled, reqOut, keepalive,
                 requireCalls, clientVars, pending, message, nextMessageId,
                 future, waitVars, handlerVars, editVars>>

\* _registration.py:195-198: the tool function returned or raised
FuncDone(c, ok) ==
  /\ pc[c] = "w_func"
  /\ pc' = [pc EXCEPT ![c] = IF ok THEN "returned" ELSE "raised"]
  /\ UNCHANGED <<serverVars, warnings, progress, configVars, callVars, cancelled, reqOut, funcCalls, keepalive,
                 requireCalls, clientVars, pending, message, nextMessageId,
                 future, waitVars, handlerVars, editVars>>

\* _registration.py:200-204: the text of the warning and of the error raised
WarningText(decision, t) ==
  [tool |-> t, text |-> IF decision = "DENIED" THEN "denied" ELSE "expired"]

TypedFailureAlwaysPermission(decision) == "PermissionError"

\* _registration.py:207-209
TypedFailure(decision) ==
  IF decision = "DENIED" THEN "PermissionError" ELSE "TimeoutError"

\* _registration.py:205-209: the warning was sent, the typed failure is raised
WarningDone(c) ==
  /\ pc[c] = "w_warning"
  /\ warnings' = [warnings EXCEPT ![c] = Append(@, WarningText(reqOut[c], tool[c]))]
  /\ pc' = [pc EXCEPT ![c] = TypedFailure(reqOut[c])]
  /\ UNCHANGED <<serverVars, progress, configVars, callVars, cancelled, reqOut, funcCalls, keepalive,
                 requireCalls, clientVars, pending, message, nextMessageId,
                 future, waitVars, handlerVars, editVars>>

\* ------------------------- approvals/discord.py: the reaction-event handler
Posted == {message[c] : c \in DOMAIN pc} \ {0}

CallOfAnyPrompt(m) == CHOOSE c \in DOMAIN pc : message[c] # 0

\* discord.py:174-178: the _PendingApproval stored under the message id
CallOf(m) == CHOOSE c \in DOMAIN pc : message[c] = m

AuthorizedAnyone(u) == TRUE

\* discord.py:184
Authorized(u) == ~(approver_ids # {} /\ u \notin approver_ids)

\* discord.py:199-201
DecisionOf(e) == IF e = "check" THEN "APPROVED" ELSE "DENIED"

\* asyncio.Future.done()
Done(f) == f \in {"APPROVED", "DENIED", "cancelled"}

IgnoredExceptBots(m, ch, e, u) ==
  ch # ChannelId \/ m \notin pending \/ e \notin {"check", "cross"}

\* discord.py:168-182: the events the handler returns on at once
Ignored(m, ch, e, u) ==
  u = BotUser \/ ch # ChannelId \/ m \notin pending
    \/ e \notin {"check", "cross"}

\* discord.py:165-204: on_reaction_add starts a handler task.  It returns at
\* once, or removes the reaction of an unauthorized user and returns (whether
\* the removal raised is only logged), or goes on to finalize the prompt and
\* is suspended in message.edit
ReactionBody(h, m, ch, e, u) ==
  /\ handler[h].pc = "idle"
  /\ \A g \in DOMAIN handler : g < h => handler[g].pc # "idle"
  /\ m \in Posted => ch = ChannelId
  /\ IF Ignored(m, ch, e, u)
     THEN UNCHANGED <<handler, removals, nEvents>>
     ELSE /\ nEvents < MaxEvents
          /\ nEvents' = nEvents + 1
          /\ IF ~Authorized(u)
             THEN /\ removals' = removals \cup {<<m, u>>}
                  /\ UNCHANGED handler
             ELSE /\ UNCHANGED removals
                  /\ handler' = [handler EXCEPT ![h] =
                       IF Done(future[CallOf(m)]) THEN IdleHandler
                       ELSE [pc |-> "finalizing", msg |-> m, user |-> u,
                             dec |-> DecisionOf(e)]]
  /\ UNCHANGED <<life, cli, span, dataVars, warnings, progress, configVars, callVars, cancelled, wrapperVars,
                 requireCalls,
                 clientVars, pending, message, nextMessageId, future, waitVars,
                 invalidState, editVars>>

ReactionAdd(h, m, ch, e, u) ==
  /\ ReactionBody(h, m, ch, e, u)
  /\ UNCHANGED lastEvent

\* the same handler, the event it was started for being recorded
ReactionSeen(h, m, ch, e, u) ==
  /\ ReactionBody(h, m, ch, e, u)
  /\ lastEvent' = [msg |-> m, channel |-> ch, emoji |-> e, user |-> u]

\* discord.py:206-213: message.edit came back, then future.set_result, which
\* raises InvalidStateError on a future that is done
HandlerEditDone(h, ok) ==
  /\ handler[h].pc = "finalizing"
  /\ LET c == CallOf(handler[h].msg) IN
       /\ Finalize(c, Edit(handler[h].dec, handler[h].user, "reaction", 0), ok)
       /\ IF Done(future[c])
          THEN /\ invalidState' = [invalidState EXCEPT ![c] = @ + 1]
               /\ UNCHANGED future
          ELSE /\ future' = [future EXCEPT ![c] = handler[h].dec]
               /\ UNCHANGED invalidState
  /\ handler' = [handler EXCEPT ![h] = IdleHandler]
  /\ UNCHANGED <<serverVars, warnings, progress, configVars, callVars, cancelled, wrapperVars, requireCalls,
                 clientVars, pending, message, nextMessageId, waitVars,
                 nEvents, removals>>

\* ------------------------------------------ the Discord gateway connection
\* discord.py:161-163: on_ready
HandleReady ==
  /\ runner = "running"
  /\ ~ready
  /\ ready' = TRUE
  /\ UNCHANGED <<serverVars, warnings, progress, configVars, callVars, cancelled, wrapperVars, requireCalls,
                 runner, channel, pending, message, nextMessageId, future,
                 waitVars, handlerVars, editVars>>

\* discord.py:151-159: client.start raised (login failure, connection lost);
\* the task is finished but _runner still refers to it
RunnerFails ==
  /\ runner = "running"
  /\ runner' = "failed"
  /\ UNCHANGED <<serverVars, warnings, progress, configVars, callVars, cancelled, wrapperVars, requireCalls,
                 ready, channel, pending, message, nextMessageId, future,
                 waitVars, handlerVars, editVars>>

\* ------------------------------ approvals/discord.py: start() and stop()
LifeRest == {"idle", "s_done", "st_returned", "st_raised", "st_cancelled"}

\* the runner task is done
RunnerDone == {"failed", "finished", "cancelled"}

StartNextNoWait(hasRunner) == "s_done"

\* discord.py:82-87: return at once when _runner is set, else wait for ready
StartNext(hasRunner) == IF hasRunner THEN "s_done" ELSE "s_wait"

\* discord.py:81-87: a task calls start()
StartBegin(t) ==
  /\ life[t].pc \in LifeRest
  /\ life' = [life EXCEPT ![t] =
                LifeAt(StartNext(runner # "none"), runner = "none", ready, "none")]
  /\ runner' = IF runner = "none" THEN "running" ELSE runner
  /\ UNCHANGED <<configVars, callVars, cancelled, wrapperVars, requireCalls,
                 ready, channel, pending, message, nextMessageId, future,
                 waitVars, handlerVars, editVars, warnings, progress, cli, lastEvent, span, dataVars>>

\* discord.py:87: the ready wait of start() is over
StartWake(t) ==
  /\ life[t].pc = "s_wait"
  /\ ready
  /\ life' = [life EXCEPT ![t] = LifeAt("s_done", @.spawned, TRUE, "none")]
  /\ UNCHANGED <<configVars, callVars, cancelled, wrapperVars, requireCalls,
                 clientVars, pending, message, nextMessageId, future,
                 waitVars, handlerVars, editVars, warnings, progress, cli, lastEvent, span, dataVars>>

StopFinallyKeepsChannel(r, rd, ch) ==
  [runner |-> "none", ready |-> FALSE, channel |-> ch]

\* discord.py:98-101: the finally block of stop()
StopFinally(r, rd, ch) ==
  [runner |-> "none", ready |-> FALSE, channel |-> FALSE]

PendingAfterStopCleared(p) == {}

\* discord.py:89-101: stop() has no statement on _pending or on a future
PendingAfterStop(p) == p

\* stop() of task t runs its finally block after the runner it awaited ended
\* with res, and returns or raises; other stop() calls that await the same
\* task object keep its end
StopEnds(t, res) ==
  LET f == StopFinally(runner, ready, channel) IN
  /\ runner' = f.runner
  /\ ready' = f.ready
  /\ channel' = f.channel
  /\ pending' = PendingAfterStop(pending)
  /\ life' = [u \in DOMAIN life |->
       IF u = t
       THEN LifeAt(IF res \in {"failed", "none"} THEN "st_raised" ELSE "st_returned",
                   FALSE, FALSE, "none")
       ELSE IF life[u].pc = "st_await" /\ life[u].res = "none"
       THEN [life[u] EXCEPT !.res = runner]
       ELSE life[u]]

\* discord.py:89-93: a task calls stop(); with a runner it calls client.close()
StopBegin(t) ==
  /\ life[t].pc \in LifeRest
  /\ IF runner = "none"
     THEN /\ life' = [life EXCEPT ![t] = LifeAt("st_returned", FALSE, FALSE, "none")]
          /\ UNCHANGED runner
     ELSE /\ life' = [life EXCEPT ![t] = LifeAt("st_close", FALSE, FALSE, "none")]
          /\ runner' = IF runner = "running" THEN "closing" ELSE runner
  /\ UNCHANGED <<configVars, callVars, cancelled, wrapperVars, requireCalls,
                 ready, channel, pending, message, nextMessageId, future,
                 waitVars, handlerVars, editVars, warnings, progress, cli, lastEvent, span, dataVars>>

\* discord.py:93-101: client.close() returned and self._runner is awaited: None
\* cannot be awaited (TypeError), a task that is done gives its end at once
StopClosed(t) ==
  /\ life[t].pc = "st_close"
  /\ IF runner = "none" \/ runner \in RunnerDone
     THEN StopEnds(t, runner)
     ELSE /\ life' = [life EXCEPT ![t] = LifeAt("st_await", FALSE, FALSE, "none")]
          /\ UNCHANGED <<clientVars, pending>>
  /\ UNCHANGED <<configVars, callVars, cancelled, wrapperVars, requireCalls,
                 message, nextMessageId, future,
                 waitVars, handlerVars, editVars, warnings, progress, cli, lastEvent, span, dataVars>>

\* discord.py:94-101: the awaited runner task is done
StopAwaited(t) ==
  /\ life[t].pc = "st_await"
  /\ life[t].res # "none" \/ runner \in RunnerDone
  /\ StopEnds(t, IF life[t].res # "none" THEN life[t].res ELSE runner)
  /\ UNCHANGED <<configVars, callVars, cancelled, wrapperVars, requireCalls,
                 message, nextMessageId, future,
                 waitVars, handlerVars, editVars, warnings, progress, cli, lastEvent, span, dataVars>>

\* the task in stop() is cancelled: in client.close() the cancellation ends
\* stop() before its try block; in the await of the runner it is passed on to
\* the runner task (discord.py:154-156) and then swallowed (discord.py:96-97)
StopCancel(t) ==
  /\ \/ /\ life[t].pc = "st_close"
        /\ life' = [life EXCEPT ![t] = LifeAt("st_cancelled", FALSE, FALSE, "none")]
        /\ UNCHANGED runner
     \/ /\ life[t].pc = "st_await" /\ life[t].res = "none"
        /\ runner \notin RunnerDone
        /\ runner' = "cancelled"
        /\ UNCHANGED life
  /\ UNCHANGED <<configVars, callVars, cancelled, wrapperVars, requireCalls,
                 ready, channel, pending, message, nextMessageId, future,
                 waitVars, handlerVars, editVars, warnings, progress, cli, lastEvent, span, dataVars>>

\* discord.py:151-153: client.start() returns once the client is closed
RunnerExits ==
  /\ runner = "closing"
  /\ runner' = "finished"
  /\ UNCHANGED <<serverVars, progress, configVars, callVars, cancelled, wrapperVars,
                 requireCalls, ready, channel, pending, message, nextMessageId,
                 future, waitVars, handlerVars, editVars, warnings, progress>>

\* ------------------------------------------------ cli.py: the server command
Tokens == {"unset", "", "tok"}
Channels == {UnsetChannel, 0, ChannelId}
Flags == {<<>>, <<"42">>, <<"42", "43">>, <<"x">>}
Envs == {<<>>, <<" ">>, <<" 43">>, <<"43", " ">>}

\* str.strip() and int() on the approver strings above
Strip(v) == IF v = " " THEN "" ELSE IF v = " 43" THEN "43" ELSE v
IsInt(v) == v \in {"42", "43"}
IntOf(v) == IF v = "42" THEN 42 ELSE 43

\* cli.py:330-337: the flag values, else the non-empty items of the variable
ApproverValues(o) ==
  IF o.flag # <<>> THEN o.flag
  ELSE SelectSeq([i \in 1..Len(o.env) |-> Strip(o.env[i])], LAMBDA v : v # "")

\* truth values of the option values (cli.py:339-345, 351)
HasToken(o) == o.token \notin {"unset", ""}
HasChannel(o) == o.channel \notin {UnsetChannel, 0}

\* cli.py:339-345
DiscordRequested(o) == HasToken(o) \/ HasChannel(o) \/ ApproverValues(o) # <<>>

\* cli.py:362-364, discord.py:313-317
ApproverIds(o) ==
  {IntOf(ApproverValues(o)[i]) : i \in 1..Len(ApproverValues(o))}

ServerResultDiscordWins(o) ==
  IF DiscordRequested(o)
  THEN IF ~HasToken(o) \/ ~HasChannel(o) THEN [outcome |-> "aborted"]
       ELSE IF \E i \in 1..Len(ApproverValues(o)) : ~IsInt(ApproverValues(o)[i])
       THEN [outcome |-> "aborted"]
       ELSE IF ApproverIds(o) = {} THEN [outcome |-> "aborted"]
       ELSE [outcome |-> "serving", allow |-> TRUE, manager |-> "discord"]
  ELSE [outcome |-> "serving", allow |-> o.jesus, manager |-> "noop"]

\* cli.py:346-381: which manager is built and whether write mode is on; a
\* failed check or a ValueError of int() ends the command with exit code 1
ServerResult(o) ==
  IF o.jesus THEN [outcome |-> "serving", allow |-> TRUE, manager |-> "noop"]
  ELSE IF DiscordRequested(o)
  THEN IF ~HasToken(o) \/ ~HasChannel(o) THEN [outcome |-> "aborted"]
       ELSE IF \E i \in 1..Len(ApproverValues(o)) : ~IsInt(ApproverValues(o)[i])
       THEN [outcome |-> "aborted"]
       ELSE IF ApproverIds(o) = {} THEN [outcome |-> "aborted"]
       ELSE [outcome |-> "serving", allow |-> TRUE, manager |-> "discord"]
  ELSE [outcome |-> "serving", allow |-> FALSE, manager |-> "noop"]

\* before the command has run there is no server
CliInit ==
  /\ \E jesus \in BOOLEAN, token \in Tokens, chan \in Channels,
        flag \in Flags, env \in Envs :
       cli = Options(jesus, token, chan, flag, env, "none")
  /\ allow_write = FALSE
  /\ approval_manager = "none"
  /\ exposed = {}
  /\ StateInit(Calls)

\* cli.py:329-407: the server command runs
ServerCommand ==
  /\ cli.outcome = "none"
  /\ LET r == ServerResult(cli) IN
       /\ cli' = [cli EXCEPT !.outcome = r.outcome]
       /\ IF r.outcome = "serving"
          THEN /\ allow_write' = r.allow
               /\ approval_manager' = r.manager
               /\ exposed' = register_tools(r.allow)
          ELSE UNCHANGED configVars
  /\ UNCHANGED <<life, lastEvent, span, dataVars, callVars, cancelled, wrapperVars, requireCalls,
                 clientVars, pending, message, nextMessageId, future,
                 waitVars, handlerVars, editVars, warnings, progress>>

CliNext == ServerCommand

CliSpec == CliInit /\ [][CliNext]_vars

\* ------------------------------------------------ server.py: the lifespan
\* A coroutine awaited by the lifespan returns, raises an ordinary exception
\* or takes the cancellation of the server task.
Outcomes == {"ok", "raise", "cancel"}

\* server.py:40-53: the teardown steps in the order of the finally block
TeardownOrder == <<"td_db", "td_approval", "td_client">>

\* server.py:43, 47, 51-53: the message logged when a step raised
TeardownLog(step) ==
  IF step = "td_db" THEN "Failed to close database connection."
  ELSE IF step = "td_approval"
  THEN "Failed to shut down approval manager cleanly."
  ELSE "Failed to close Schwab async client session during shutdown."

\* the step after step, or "exited" after the last one
StepAfter(step) ==
  IF step = "td_db" THEN "td_approval"
  ELSE IF step = "td_approval" THEN "td_client"
  ELSE "exited"

TeardownNextStopsAtFailure(step, res) ==
  IF res = "ok" THEN StepAfter(step) ELSE "exited"

\* server.py:40-53: except Exception lets the finally block go on;
\* CancelledError is not an Exception and leaves it
TeardownNext(step, res) ==
  IF res = "cancel" THEN "cancelled" ELSE StepAfter(step)

SpanRest ==
  UNCHANGED <<dataVars, life, cli, lastEvent, warnings, progress, configVars, callVars,
              cancelled, wrapperVars, requireCalls, clientVars, pending,
              message, nextMessageId, future, waitVars, handlerVars, editVars>>

\* server.py:32: approval_manager.start() came back
SpanApprovalStarted(res) ==
  /\ span.pc = "idle"
  /\ span' = [span EXCEPT
       !.started = IF res = "ok" THEN Append(@, "approval") ELSE @,
       !.pc = IF res = "ok" THEN "db_start"
              ELSE IF res = "raise" THEN "failed" ELSE "cancelled",
       !.propagated = IF res = "ok" THEN "none"
                      ELSE IF res = "raise" THEN "startup" ELSE "cancelled"]
  /\ SpanRest

\* server.py:33-38: db_manager.start() came back; the context is yielded
SpanDbStarted(res) ==
  /\ span.pc = "db_start"
  /\ span' = [span EXCEPT
       !.started = IF res = "ok" THEN Append(@, "db") ELSE @,
       !.pc = IF res = "ok" THEN "serving"
              ELSE IF res = "raise" THEN "failed" ELSE "cancelled",
       !.propagated = IF res = "ok" THEN "none"
                      ELSE IF res = "raise" THEN "startup" ELSE "cancelled"]
  /\ SpanRest

\* server.py:37-40: the body of the lifespan ends (returns, raises or is
\* cancelled) and the finally block calls db_manager.stop()
SpanBodyExit(how) ==
  /\ span.pc = "serving"
  /\ span' = [span EXCEPT !.pc = TeardownOrder[1], !.body = how]
  /\ SpanRest

\* server.py:40-53: the awaited teardown step came back
SpanTeardownDone(res) ==
  /\ span.pc \in {TeardownOrder[i] : i \in DOMAIN TeardownOrder}
  /\ LET next == TeardownNext(span.pc, res) IN
     span' = [span EXCEPT
       !.pc = next,
       !.attempts = Append(@, span.pc),
       !.results = Append(@, res),
       !.logs = IF res = "raise" THEN Append(@, TeardownLog(span.pc)) ELSE @,
       !.propagated = IF next = "cancelled" THEN "cancelled"
                      ELSE IF next # "exited" THEN @
                      ELSE IF span.body = "raise" THEN "body"
                      ELSE IF span.body = "cancel" THEN "cancelled"
                      ELSE "none"]
  /\ SpanRest

SpanNext ==
  \/ \E res \in Outcomes : SpanApprovalStarted(res)
  \/ \E res \in Outcomes : SpanDbStarted(res)
  \/ \E how \in {"return", "raise", "cancel"} : SpanBodyExit(how)
  \/ \E res \in Outcomes : SpanTeardownDone(res)

SpanSpec == Init /\ [][SpanNext]_vars

\* ------------------------------------------- remote/token_storage.py: calls
StoreRest == UNCHANGED <<gateVars, ingest, win, sql>>

FreshOrEqual(some, age) == some /\ age <= CacheTtl

\* token_storage.py:78-81: a token is cached and younger than cache_ttl
Fresh(some, age) == some /\ age < CacheTtl

\* token_storage.py:69-73: what load() returns or raises
LoadResult(cache) ==
  IF cache.some THEN Result("token", cache.value)
  ELSE Result("FileNotFoundError", EmptyToken)

\* token_storage.py:63-73: load()
Load(t) ==
  /\ tokTask[t].pc = "idle"
  /\ tokTask' = [tokTask EXCEPT ![t] =
       [pc |-> "idle", op |-> "load", arg |-> EmptyToken, queried |-> FALSE,
        ret |-> LoadResult(cachedToken)]]
  /\ UNCHANGED <<wall, cachedToken, cacheTime, tokenRow>>
  /\ StoreRest

\* token_storage.py:75-91: load_async() up to its return or its query
LoadAsync(t) ==
  /\ tokTask[t].pc = "idle"
  /\ tokTask' = [tokTask EXCEPT ![t] =
       IF Fresh(cachedToken.some, wall - cacheTime)
       THEN [pc |-> "idle", op |-> "load_async", arg |-> EmptyToken,
             queried |-> FALSE, ret |-> Result("token", cachedToken.value)]
       ELSE [pc |-> "l_query", op |-> "load_async", arg |-> EmptyToken,
             queried |-> TRUE, ret |-> NoResult]]
  /\ UNCHANGED <<wall, cachedToken, cacheTime, tokenRow>>
  /\ StoreRest

\* token_storage.py:88-107: the SELECT came back (ok) or db.execute raised
LoadFromDb(t, ok) ==
  /\ tokTask[t].pc = "l_query"
  /\ LET token == Loads(tokenRow.data)
         hit == ok /\ tokenRow.present /\ token.isDict
     IN
       /\ tokTask' = [tokTask EXCEPT ![t].pc = "idle", ![t].ret =
            IF ~ok THEN Result("raised", EmptyToken)
            ELSE IF ~tokenRow.present THEN Result("FileNotFoundError", EmptyToken)
            ELSE IF ~token.isDict THEN Result("ValueError", EmptyToken)
            ELSE Result("token", token.value)]
       /\ cachedToken' = IF hit THEN CacheOf(token.value) ELSE cachedToken
       /\ cacheTime' = IF hit THEN wall ELSE cacheTime
  /\ UNCHANGED <<wall, tokenRow>>
  /\ StoreRest

\* token_storage.py:136-141: write_async() up to its return or its upsert
WriteAsync(t, token) ==
  /\ tokTask[t].pc = "idle"
  /\ tokTask' = [tokTask EXCEPT ![t] =
       IF token = EmptyToken
       THEN [pc |-> "idle", op |-> "write_async", arg |-> token,
             queried |-> FALSE, ret |-> Result("None", EmptyToken)]
       ELSE [pc |-> "w_upsert", op |-> "write_async", arg |-> token,
             queried |-> TRUE, ret |-> NoResult]]
  /\ UNCHANGED <<wall, cachedToken, cacheTime, tokenRow>>
  /\ StoreRest

WriteCacheAlways(ok, token, cache) == CacheOf(token)

\* token_storage.py:141-143: the cache is set after the awaited upsert only
WriteCache(ok, token, cache) == IF ok THEN CacheOf(token) ELSE cache

\* token_storage.py:141-158: the upsert came back (ok) or db.execute raised
WriteDone(t, ok) ==
  /\ tokTask[t].pc = "w_upsert"
  /\ tokTask' = [tokTask EXCEPT ![t].pc = "idle", ![t].ret =
       IF ok THEN Result("None", EmptyToken) ELSE Result("raised", EmptyToken)]
  /\ tokenRow' = IF ok THEN RowOf(Dumps(tokTask[t].arg)) ELSE tokenRow
  /\ cachedToken' = WriteCache(ok, tokTask[t].arg, cachedToken)
  /\ cacheTime' = IF ok THEN wall ELSE cacheTime
  /\ UNCHANGED wall
  /\ StoreRest

\* token_storage.py:109-134: write(); persisted: the write through the
\* thread bridge reached the database
Write(t, token, persisted) ==
  /\ tokTask[t].pc = "idle"
  /\ tokTask' = [tokTask EXCEPT ![t] =
       [pc |-> "idle", op |-> "write", arg |-> token, queried |-> FALSE,
        ret |-> Result("None", EmptyToken)]]
  /\ IF token = EmptyToken
     THEN UNCHANGED <<cachedToken, cacheTime, tokenRow>>
     ELSE /\ cachedToken' = CacheOf(token)
          /\ cacheTime' = wall
          /\ tokenRow' = IF persisted THEN RowOf(Dumps(token)) ELSE tokenRow
  /\ UNCHANGED wall
  /\ StoreRest

\* token_storage.py:172-175: invalidate_cache()
InvalidateCache ==
  /\ cachedToken' = NoCache
  /\ cacheTime' = 0
  /\ UNCHANGED <<wall, tokenRow, tokTask>>
  /\ StoreRest

\* the admin service, another process, replaces the row
AdminWrites(text) ==
  /\ tokenRow' = RowOf(text)
  /\ UNCHANGED <<wall, cachedToken, cacheTime, tokTask>>
  /\ StoreRest

\* time passes
WallTick ==
  /\ wall < MaxWall
  /\ wall' = wall + 1
  /\ UNCHANGED <<cachedToken, cacheTime, tokenRow, tokTask>>
  /\ StoreRest

StoreNext ==
  \/ \E t \in TokTasks : Load(t)
  \/ \E t \in TokTasks : LoadAsync(t)
  \/ \E t \in TokTasks, ok \in BOOLEAN : LoadFromDb(t, ok)
  \/ \E t \in TokTasks, token \in OAuthTokens : WriteAsync(t, token)
  \/ \E t \in TokTasks, ok \in BOOLEAN : WriteDone(t, ok)
  \/ \E t \in TokTasks, token \in OAuthTokens, persisted \in BOOLEAN :
       Write(t, token, persisted)
  \/ InvalidateCache
  \/ \E text \in {Dumps(TokenA), Dumps(TokenB), ArrayText} : AdminWrites(text)
  \/ WallTick

\* a server without write mode that serves no tool call meanwhile
StoreSpecInit == ConfigInit({FALSE}, {FALSE}) /\ StateInit(Calls)

StoreSpec == StoreSpecInit /\ [][StoreNext]_vars

\* ------------------------------------------------ db/_ingestion.py: calls
IngestRest == UNCHANGED <<gateVars, storeVars, win, sql>>

RECURSIVE RowsOf(_)
\* _ingestion.py:86-95: the contract rows of the strikes of one map
RowsOf(strikes) ==
  IF strikes = <<>> THEN 0
  ELSE (IF Head(strikes).isList THEN Head(strikes).contracts ELSE 0)
       + RowsOf(Tail(strikes))

\* _ingestion.py:75-95: len(contract_rows)
ContractRows(data) ==
  (IF data.calls.isDict THEN RowsOf(data.calls.strikes) ELSE 0)
  + (IF data.puts.isDict THEN RowsOf(data.puts.strikes) ELSE 0)

CaughtReraised(err) == Returned(err, 0)

\* _ingestion.py:36-38: except Exception: log and return None
Caught(err) == Returned("None", 0)

\* _ingestion.py:29-71: ingest_option_chain up to its first database call
IngestCall(db, data) ==
  /\ ingest.pc = "idle"
  /\ ingest' =
       IF db = "noop" \/ ~data.isDict
       THEN [IdleIngest EXCEPT !.pc = "done", !.db = db, !.data = data,
                               !.ret = Returned("None", 0)]
       ELSE [IdleIngest EXCEPT !.pc = "g_snapshot", !.db = db, !.data = data,
                               !.calls = <<"execute">>]
  /\ IngestRest

\* _ingestion.py:48-98: the snapshot INSERT came back: a row with the id, no
\* row, an exception, or the cancellation of the tool call
IngestSnapshotDone(res, id) ==
  /\ ingest.pc = "g_snapshot"
  /\ ingest' =
       IF res = "cancel"
       THEN [ingest EXCEPT !.pc = "done", !.snapshot = "cancelled",
                           !.ret = Returned("CancelledError", 0)]
       ELSE IF res = "raise"
       THEN [ingest EXCEPT !.pc = "done", !.snapshot = "raised",
                           !.ret = Caught("StorageError")]
       ELSE IF res = "empty"
       THEN [ingest EXCEPT !.pc = "done", !.snapshot = "ok",
                           !.ret = Caught("IndexError")]
       ELSE IF ContractRows(ingest.data) > 0
       THEN [ingest EXCEPT !.pc = "g_batch", !.snapshot = "ok",
                           !.calls = Append(@, "execute_many"),
                           !.ret = Returned("none", id)]
       ELSE [ingest EXCEPT !.pc = "done", !.snapshot = "ok",
                           !.ret = Returned("id", id)]
  /\ IngestRest

\* _ingestion.py:97-107: the batch INSERT of the contracts came back
IngestBatchDone(res) ==
  /\ ingest.pc = "g_batch"
  /\ ingest' =
       IF res = "cancel"
       THEN [ingest EXCEPT !.pc = "done", !.batch = "cancelled",
                           !.ret = Returned("CancelledError", 0)]
       ELSE IF res = "raise"
       THEN [ingest EXCEPT !.pc = "done", !.batch = "raised",
                           !.ret = Caught("StorageError")]
       ELSE [ingest EXCEPT !.pc = "done", !.batch = "ok",
                           !.ret = Returned("id", @.id)]
  /\ IngestRest

IngestNext ==
  \/ \E db \in {"noop", "sql"}, data \in Payloads : IngestCall(db, data)
  \/ \E res \in {"row", "empty", "raise", "cancel"}, id \in SnapshotIds :
       IngestSnapshotDone(res, id)
  \/ \E res \in Outcomes : IngestBatchDone(res)

IngestSpec == StoreSpecInit /\ [][IngestNext]_vars

\* --------------------------------------------------- tools/options.py: calls
WinRest == UNCHANGED <<gateVars, storeVars, ingest, sql>>

\* days a caller may name, and days the call may be made on
Days == {0, 1, 40, 41, 100, 101, DateMax - WindowDays, DateMax - WindowDays + 1,
         DateMax}
Todays == {40, 100}

Min(a, b) == IF a < b THEN a ELSE b

ClampNever(from, to) == to

\* options.py:34-35: an end before the start becomes the start
Clamp(from, to) == IF to < from THEN from ELSE to

\* options.py:17-37: _normalize_expiration_window; date + timedelta raises
\* OverflowError past datetime.date.max
NormalizeExpirationWindow(from_date, to_date, today) ==
  IF from_date = NoDate /\ to_date = NoDate
  THEN IF today + WindowDays > DateMax THEN NoWindow("OverflowError")
       ELSE Window(today, today + WindowDays)
  ELSE LET from == IF from_date = NoDate THEN Min(today, to_date) ELSE from_date
       IN IF to_date = NoDate
          THEN IF from + WindowDays > DateMax THEN NoWindow("OverflowError")
               ELSE Window(from, Clamp(from, from + WindowDays))
          ELSE Window(from, Clamp(from, to_date))

\* options.py:40-61, 144-199: get_option_chain or get_advanced_option_chain
\* is called on day today
OptionChainCall(today, from, to) ==
  /\ win.done
  /\ win' = WinOf(today, from, to)
  /\ WinRest

\* options.py:69-84, 204-232: the window is computed and the broker called
OptionChainWindow ==
  /\ ~win.done
  /\ win' = [win EXCEPT !.done = TRUE,
               !.out = NormalizeExpirationWindow(win.from, win.to, win.today)]
  /\ WinRest

WinNext ==
  \/ \E today \in Todays, from, to \in Days \cup {NoDate} :
       OptionChainCall(today, from, to)
  \/ OptionChainWindow

WinSpec == StoreSpecInit /\ [][WinNext]_vars

\* ---------------------------------------------------- db/_manager.py: calls
SqlRest == UNCHANGED <<gateVars, storeVars, ingest, win>>

SqlOps == {"execute", "execute_many"}

IsConnectionErrorAny(exc) == TRUE

\* _manager.py:110-112: _is_connection_error; ConnectionResetError is an
\* OSError
IsConnectionError(exc) ==
  exc \in {"OSError", "ConnectionResetError"} \/ exc = "InterfaceError"

\* how _run ends on a connection: None has no cursor(), a closed connection
\* executes nothing
RunEnds(conn) ==
  IF conn = "none" THEN {"AttributeError"}
  ELSE IF conn = "closed" THEN (SqlErrors \ {"AttributeError"}) \cup {"cancel"}
  ELSE SqlEnds \ {"none", "AttributeError"}

\* _manager.py:53-76: start() at server startup; connect may fail, and so
\* may the schema script on the new connection
SqlStart(res, stage) ==
  /\ sql.pc = "idle" /\ sql.conn = "none"
  /\ res = "ok" => stage = "schema"
  /\ sql' = SqlIdle(IF stage = "schema" THEN "open" ELSE "none")
  /\ SqlRest

\* _manager.py:122-136, 142-151: execute or execute_many is called and the
\* thread runs the statement for the first time
SqlCall(op) ==
  /\ sql.pc \in {"idle", "returned", "raised", "cancelled"}
  /\ sql' = [SqlIdle(sql.conn) EXCEPT !.pc = "run1", !.op = op, !.runs = 1]
  /\ SqlRest

\* _manager.py:135-139, 150-154: the first run is over; a connection error
\* leads into _reconnect, whose stop() is called (114-118)
SqlRun1Done(res) ==
  /\ sql.pc = "run1"
  /\ res \in RunEnds(sql.conn)
  /\ sql' = [sql EXCEPT
       !.first = res,
       !.pc = IF res = "ok" THEN "returned"
              ELSE IF res = "cancel" THEN "cancelled"
              ELSE IF IsConnectionError(res) THEN "stop" ELSE "raised",
       !.stops = IF res \notin {"ok", "cancel"} /\ IsConnectionError(res)
                 THEN @ + 1 ELSE @]
  /\ SqlRest

\* _manager.py:116-120: stop() is over, its exception swallowed; start() is
\* called
SqlStopDone(res) ==
  /\ sql.pc = "stop"
  /\ res \in SqlEnds \ {"none", "AttributeError"}
  /\ sql' = [sql EXCEPT
       !.stopped = res,
       !.conn = IF @ = "open" THEN "closed" ELSE @,
       !.pc = IF res = "cancel" THEN "cancelled" ELSE "start",
       !.starts = IF res = "cancel" THEN @ ELSE @ + 1]
  /\ SqlRest

\* _manager.py:120, 140, 155: start() of the reconnect is over; on success
\* the statement runs once more
SqlRestartDone(res, stage) ==
  /\ sql.pc = "start"
  /\ res \in SqlEnds \ {"none", "AttributeError"}
  /\ res = "ok" => stage = "schema"
  /\ sql' = [sql EXCEPT
       !.started = res,
       !.conn = IF stage = "schema" THEN "open" ELSE @,
       !.pc = IF res = "ok" THEN "run2"
              ELSE IF res = "cancel" THEN "cancelled" ELSE "raised",
       !.runs = IF res = "ok" THEN @ + 1 ELSE @]
  /\ SqlRest

\* _manager.py:140, 155: the second run is over, however it ended
SqlRun2Done(res) ==
  /\ sql.pc = "run2"
  /\ res \in RunEnds(sql.conn)
  /\ sql' = [sql EXCEPT
       !.second = res,
       !.pc = IF res = "ok" THEN "returned"
              ELSE IF res = "cancel" THEN "cancelled" ELSE "raised"]
  /\ SqlRest

SqlNext ==
  \/ \E res \in {"ok", "OSError", "ProgrammingError"},
        stage \in {"connect", "schema"} : SqlStart(res, stage)
  \/ \E op \in SqlOps : SqlCall(op)
  \/ \E res \in SqlEnds : SqlRun1Done(res)
  \/ \E res \in SqlEnds : SqlStopDone(res)
  \/ \E res \in SqlEnds, stage \in {"connect", "schema"} :
       SqlRestartDone(res, stage)
  \/ \E res \in SqlEnds : SqlRun2Done(res)

SqlSpec == StoreSpecInit /\ [][SqlNext]_vars

\* ------------------------------------------------------------ specification
TaskStep ==
  \/ \E c \in Calls, ok \in BOOLEAN, lk \in Lookups : Progress0Done(c, ok, lk)
  \/ \E c \in Calls, res \in {"ok", "unmessageable", "raise"} : FetchDone(c, res)
  \/ \E c \in Calls, lk \in Lookups : ReadyWake(c, lk)
  \/ \E c \in Calls, ok \in BOOLEAN : SendDone(c, ok)
  \/ \E c \in Calls, ok \in BOOLEAN : React1Done(c, ok)
  \/ \E c \in Calls, ok \in BOOLEAN : React2Done(c, ok)
  \/ \E c \in Calls, ok \in BOOLEAN : FailClosedDone(c, ok)
  \/ \E c \in Calls : WaitDone(c)
  \/ \E c \in Calls : TimeoutFire(c)
  \/ \E c \in Calls, ok \in BOOLEAN : ExpiredDone(c, ok)
  \/ Tick
  \/ \E c \in Calls : KeepaliveCancelled(c)
  \/ \E c \in Calls : KeepaliveAwaited(c)
  \/ \E c \in Calls : CompletionDone(c)
  \/ \E c \in Calls, ok \in BOOLEAN : FuncDone(c, ok)
  \/ \E c \in Calls : WarningDone(c)
  \/ \E h \in Handlers, ok \in BOOLEAN : HandlerEditDone(h, ok)

Environment ==
  \/ \E c \in Calls, t \in Tools, tok \in BOOLEAN, lk \in Lookups :
       Invoke(c, t, tok, lk)
  \/ \E c \in Calls : Cancel(c)
  \/ \E c \in Calls : KeepaliveFails(c)
  \/ \E h \in Handlers, m \in Posted \cup {ForeignMessage},
        ch \in {ChannelId, OtherChannel}, e \in Emojis, u \in Users :
       ReactionAdd(h, m, ch, e, u)
  \/ HandleReady
  \/ RunnerFails

Next == TaskStep \/ Environment

Spec == Init /\ [][Next]_vars

\* The event loop runs every task that can run, HTTP calls come back, timers
\* fire and a gateway connection that is up reports ready; what reviewers and
\* callers do, and whether the connection comes up at all, is not promised.
FairSpec == Spec /\ WF_vars(TaskStep) /\ WF_vars(HandleReady)

\* ------------------------------------------------- progress updates of a call
\* The keep-alive loop's updates change nothing but the list of progress
\* updates, so Spec leaves them out; here they are sent, up to MaxKeepalives
\* per call, to a caller who may cancel at any time.  Every call into the
\* platform and into the caller's session may fail; reviewers react with a
\* decision to a prompt of the manager, in its channel.
ProgressTaskStep == TaskStep \/ \E c \in Calls : KeepaliveEmit(c)

ProgressEnvironment ==
  \/ \E c \in Calls, t \in Tools, tok \in BOOLEAN, lk \in Lookups :
       Invoke(c, t, tok, lk)
  \/ \E c \in Calls : Cancel(c)
  \/ \E c \in Calls : KeepaliveFails(c)
  \/ \E h \in Handlers, m \in Posted, e \in {"check", "cross"},
        u \in approver_ids :
       ReactionAdd(h, m, ChannelId, e, u)
  \/ HandleReady
  \/ RunnerFails

ProgressNext == ProgressTaskStep \/ ProgressEnvironment

ProgressSpec == Init /\ [][ProgressNext]_vars

\* ------------------------------------------- direct calls of a tool function
\* The MCP layer always hands its own context to a tool (Invoke).  Here the
\* registered function is called directly, as the tests do, with anything
\* bound to the context parameter.
ContextEnvironment ==
  \/ \E c \in Calls, t \in Tools, tok \in BOOLEAN, lk \in Lookups,
        ctx \in Contexts :
       InvokeWith(c, t, tok, lk, ctx)
  \/ \E c \in Calls : Cancel(c)
  \/ \E c \in Calls : KeepaliveFails(c)
  \/ \E h \in Handlers, m \in Posted, e \in {"check", "cross"},
        u \in approver_ids :
       ReactionAdd(h, m, ChannelId, e, u)
  \/ HandleReady
  \/ RunnerFails

ContextNext == TaskStep \/ ContextEnvironment

ContextSpec == Init /\ [][ContextNext]_vars

\* ------------------------------------------- two concurrent write-tool calls
\* Two invocations of a write tool on a server started with the Discord
\* manager, without progress token.  The callers do not cancel, the gateway
\* connection comes up, every HTTP call succeeds and the reactions are
\* decisions of approvers on the two prompts, in any order.
PairCalls == {1, 2}

PairInit == ConfigInit({FALSE}, {TRUE}) /\ StateInit(PairCalls)

PairTaskStep ==
  \/ \E c \in PairCalls : ReadyWake(c, "hit")
  \/ \E c \in PairCalls : SendDone(c, TRUE)
  \/ \E c \in PairCalls : React1Done(c, TRUE)
  \/ \E c \in PairCalls : React2Done(c, TRUE)
  \/ \E c \in PairCalls : WaitDone(c)
  \/ \E c \in PairCalls : TimeoutFire(c)
  \/ \E c \in PairCalls : ExpiredDone(c, TRUE)
  \/ Tick
  \/ \E c \in PairCalls : FuncDone(c, TRUE)
  \/ \E c \in PairCalls : WarningDone(c)
  \/ \E h \in Handlers : HandlerEditDone(h, TRUE)

PairEnvironment ==
  \/ \E c \in PairCalls : Invoke(c, "cancel_order", FALSE, "hit")
  \/ \E h \in Handlers, m \in Posted, e \in {"check", "cross"}, u \in approver_ids :
       ReactionAdd(h, m, ChannelId, e, u)
  \/ HandleReady

PairNext == PairTaskStep \/ PairEnvironment

PairSpec == PairInit /\ [][PairNext]_vars

\* ------------------------------------------------ the manager's lifecycle
\* Tasks call start() and stop() on the Discord manager in any order while one
\* write-tool call without progress token runs and no reviewer reacts to its
\* prompt; the connection may come up, fail or be closed.
LifeInit == ConfigInit({FALSE}, {TRUE}) /\ StateInit(Calls)

LifeTaskStep ==
  \/ \E t \in LifeTasks : StartWake(t)
  \/ \E t \in LifeTasks : StopClosed(t)
  \/ \E t \in LifeTasks : StopAwaited(t)
  \/ RunnerExits
  \/ \E c \in Calls, lk \in Lookups : ReadyWake(c, lk)
  \/ \E c \in Calls, res \in {"ok", "unmessageable", "raise"} : FetchDone(c, res)
  \/ \E c \in Calls, ok \in BOOLEAN : SendDone(c, ok)
  \/ \E c \in Calls, ok \in BOOLEAN : React1Done(c, ok)
  \/ \E c \in Calls, ok \in BOOLEAN : React2Done(c, ok)
  \/ \E c \in Calls, ok \in BOOLEAN : FailClosedDone(c, ok)
  \/ \E c \in Calls : TimeoutFire(c)
  \/ \E c \in Calls, ok \in BOOLEAN : ExpiredDone(c, ok)
  \/ Tick
  \/ \E c \in Calls : WarningDone(c)

LifeEnvironment ==
  \/ \E t \in LifeTasks : StartBegin(t)
  \/ \E t \in LifeTasks : StopBegin(t)
  \/ \E t \in LifeTasks : StopCancel(t)
  \/ \E c \in Calls, lk \in Lookups : Invoke(c, "cancel_order", FALSE, lk)
  \/ HandleReady
  \/ RunnerFails

LifeNext == LifeTaskStep \/ LifeEnvironment

LifeSpec == LifeInit /\ [][LifeNext]_vars

\* ------------------------------------------------ reaction events, observed
\* One write-tool call without progress token on a server started with the
\* Discord manager; the caller does not cancel, the gateway connection comes
\* up, every HTTP call succeeds; every reaction event is recorded.
ReactInit == ConfigInit({FALSE}, {TRUE}) /\ StateInit(Calls)

\* the bot, an approver and a user who is not an approver
ReactUsers == {BotUser, 42, 99}

ReactTaskStep ==
  \/ \E c \in Calls : ReadyWake(c, "hit")
  \/ \E c \in Calls : SendDone(c, TRUE)
  \/ \E c \in Calls : React1Done(c, TRUE)
  \/ \E c \in Calls : React2Done(c, TRUE)
  \/ \E c \in Calls : WaitDone(c)
  \/ \E c \in Calls : TimeoutFire(c)
  \/ \E c \in Calls : ExpiredDone(c, TRUE)
  \/ Tick
  \/ \E c \in Calls : FuncDone(c, TRUE)
  \/ \E c \in Calls : WarningDone(c)
  \/ \E h \in Handlers : HandlerEditDone(h, TRUE)

ReactEnvironment ==
  \/ \E c \in Calls : Invoke(c, "cancel_order", FALSE, "hit")
  \/ \E h \in Handlers, m \in Posted \cup {ForeignMessage},
        ch \in {ChannelId, OtherChannel}, e \in Emojis, u \in ReactUsers :
       ReactionSeen(h, m, ch, e, u)
  \/ HandleReady

ReactNext == ReactTaskStep \/ ReactEnvironment

ReactSpec == ReactInit /\ [][ReactNext]_vars

\* ------------------------------------------------------------------ claims
WrapperDecisions == {"APPROVED", "DENIED", "EXPIRED"}
AfterWait == {"w_completion", "w_warning", "returned", "PermissionError",
              "TimeoutError", "raised", "cancelled"}

\* C1: the wrapped write-tool function is called at most once per invocation,
\* and only after require() returned APPROVED for that invocation's request
\* (with the Discord manager: a future resolved APPROVED); when require()
\* returned DENIED or EXPIRED, raised or was cancelled, it is never called.
C1_FuncOnlyAfterApproved ==
  \A c \in Calls :
    /\ funcCalls[c] <= 1
    /\ IsWrite(tool[c]) /\ funcCalls[c] = 1 =>
         /\ reqOut[c] = "APPROVED"
         /\ requireCalls[c] = 1
         /\ approval_manager = "discord" => future[c] = "APPROVED"
    /\ reqOut[c] \in {"DENIED", "EXPIRED", "raised", "cancelled"} =>
         funcCalls[c] = 0

C1_Witness ==
  \E c \in Calls :
    /\ IsWrite(tool[c]) /\ approval_manager = "discord"
    /\ reqOut[c] = "APPROVED" /\ funcCalls[c] = 1 /\ pc[c] = "returned"

\* C2: for a call that is not cancelled, the decision future is resolved at
\* most once and require() returns the decision it was resolved with; a further
\* reaction (duplicate, conflicting, or overtaken by the timeout) is a no-op:
\* no handler finalizes the prompt and then calls set_result on a future that
\* is already done, which raises InvalidStateError.
C2_LateReactionsAreNoOps ==
  \A c \in Calls :
    ~cancelled[c] =>
      /\ invalidState[c] = 0
      /\ reqOut[c] \in {"APPROVED", "DENIED"} /\ approval_manager = "discord"
           /\ ~attachFailed[c] => reqOut[c] = future[c]

\* C3: a reaction of a user who is not an approver never resolves the future
\* and never edits the prompt; its only effect is the removal of the reaction.
C3_UnauthorizedNeverDecides ==
  /\ \A h \in Handlers :
       handler[h].pc = "finalizing" => handler[h].user \in approver_ids
  /\ \A c \in Calls :
       /\ \A i \in 1..Len(edits[c]) : edits[c][i].actor \in approver_ids \cup {0}
       /\ future[c] \in {"APPROVED", "DENIED"} =>
            \E i \in 1..Len(edits[c]) :
              /\ edits[c][i].actor \in approver_ids
              /\ edits[c][i].decision = future[c]
  /\ \A r \in removals : r[2] \notin approver_ids /\ r[2] # BotUser

C3_Witness ==
  \E c \in Calls :
    /\ <<message[c], 99>> \in removals
    /\ pc[c] = "r_wait" /\ future[c] = "pending" /\ edits[c] = <<>>
    /\ shown[c] = "pending"

\* C4: when attaching a reaction raised, require() returns DENIED without
\* waiting: no pending entry and no future exist, no timeout ran, the prompt
\* is finalized as denied, and require() does not raise.
C4_AttachFailureFailsClosed ==
  \A c \in Calls :
    attachFailed[c] =>
      /\ future[c] = "none" /\ message[c] \notin pending
      /\ elapsed[c] = 0 /\ ~timedOut[c]
      /\ reqOut[c] \in {"none", "DENIED", "cancelled"}
      /\ reqOut[c] = "none" => pc[c] = "r_failclosed"
      /\ reqOut[c] = "DENIED" =>
           /\ Len(edits[c]) = 1
           /\ edits[c][1].decision = "DENIED" /\ edits[c][1].actor = 0
           /\ edits[c][1].note = "reactions"
      /\ funcCalls[c] = 0

C4_Witness ==
  \E c \in Calls :
    /\ attachFailed[c] /\ reqOut[c] = "DENIED" /\ pc[c] = "PermissionError"
    /\ shown[c] = "DENIED"

C6_TimeoutYieldsExpired ==
  \A c \in Calls :
    /\ Waiting(c) => elapsed[c] <= TimeoutTicks
    /\ reqOut[c] = "EXPIRED" => timedOut[c]
    /\ timedOut[c] =>
         /\ elapsed[c] = TimeoutTicks
         /\ future[c] = "cancelled"
         /\ reqOut[c] \in {"none", "EXPIRED", "cancelled"}
         /\ reqOut[c] = "none" => pc[c] = "r_expired"
         /\ reqOut[c] = "EXPIRED" =>
              \E i \in 1..Len(edits[c]) :
                /\ edits[c][i].decision = "EXPIRED"
                /\ edits[c][i].actor = 0
                /\ edits[c][i].note = "timeout"
                /\ edits[c][i].seconds * TicksPerSecond <= TimeoutTicks
                /\ TimeoutTicks < (edits[c][i].seconds + 1) * TicksPerSecond

C6_Witness ==
  \E c \in Calls :
    /\ timedOut[c] /\ reqOut[c] = "EXPIRED" /\ pc[c] = "TimeoutError"
    /\ shown[c] = "EXPIRED"

\* C7: the pending map holds only the messages of require() calls that are
\* waiting for their decision or finalizing an expiry; once a call has left
\* require() on any path its message id is not in the map.
C7_PendingOnlyInFlight ==
  /\ \A c \in Calls : pc[c] \notin {"r_wait", "r_expired"} =>
       message[c] \notin pending
  /\ pending \subseteq Posted

C7_Witness ==
  \E c \in Calls :
    /\ cancelled[c] /\ reqOut[c] = "cancelled" /\ future[c] = "cancelled"
    /\ ~timedOut[c] /\ pending = {}

\* C8: every require() call eventually ends.
C8_RequireTerminates ==
  \A c \in Calls : (pc[c] \in InRequire) ~> (pc[c] \notin InRequire)

\* C9: the prompt of a request is finalized at most once, and exactly once
\* when require() returned a decision for a prompt that was posted.
C9_FinalizedExactlyOnce ==
  \A c \in Calls :
    /\ Len(edits[c]) <= 1
    /\ message[c] # 0 /\ reqOut[c] \in WrapperDecisions => Len(edits[c]) = 1

\* C10: the keep-alive task runs only while the wrapper waits on require();
\* when the wrapper goes on after that wait, or has ended, the task is done.
C10_KeepaliveDoneAfterWait ==
  \A c \in Calls :
    /\ pc[c] \in AfterWait \/ (pc[c] = "w_func" /\ IsWrite(tool[c])) =>
         keepalive[c] \in {"none", "done"}
    /\ keepalive[c] \in {"running", "cancelling"} =>
         pc[c] \in InRequire \cup {"w_ka_await"}
    /\ keepalive[c] = "running" => pc[c] \in InRequire

C10_Witness ==
  \E c \in Calls :
    /\ hasToken[c] /\ keepalive[c] = "done"
    /\ reqOut[c] = "raised" /\ pc[c] = "raised"

C12_ConcurrentIndependent ==
  [][ /\ \A h \in Handlers :
           handler[h].pc = "finalizing" /\ handler'[h].pc = "idle" =>
             \A c \in PairCalls :
               IF message[c] = handler[h].msg
               THEN future[c] = "pending" => future'[c] = handler[h].dec
               ELSE /\ future'[c] = future[c]
                    /\ edits'[c] = edits[c]
                    /\ shown'[c] = shown[c]
                    /\ message[c] \in pending' <=> message[c] \in pending
      /\ \A c \in PairCalls :
           /\ future'[c] # future[c] /\ future'[c] \in {"APPROVED", "DENIED"} =>
                \E h \in Handlers :
                  /\ handler[h].pc = "finalizing" /\ handler'[h].pc = "idle"
                  /\ handler[h].msg = message[c]
                  /\ handler[h].dec = future'[c]
           /\ message[c] \in pending /\ message[c] \notin pending' =>
                pc[c] \in {"r_wait", "r_expired"} /\ pc'[c] \notin InRequire
           /\ reqOut'[c] \in {"APPROVED", "DENIED"} => reqOut'[c] = future'[c]
    ]_vars

\* the second request is decided while the first, posted earlier, still waits
C12_Witness ==
  /\ message[1] # 0 /\ message[1] < message[2]
  /\ future[2] = "DENIED" /\ reqOut[2] = "DENIED" /\ message[2] \notin pending
  /\ future[1] = "pending" /\ message[1] \in pending /\ pc[1] = "r_wait"
  /\ edits[1] = <<>> /\ shown[1] = "pending"

\* C13 as stated: whenever a start() call has returned, the ready signal had
\* fired: ready was set at the moment of the return, also for a call that
\* found the runner task already there.
C13_StartReturnsAfterReady ==
  \A t \in LifeTasks : life[t].pc = "s_done" => life[t].sawReady

\* C13 amended: a start() call that spawned the runner task returns only
\* after ready was set; only such a call waits.  (A call that finds the runner
\* task there returns at once, with ready set or not.)
C13_SpawningStartWaits ==
  \A t \in LifeTasks :
    /\ life[t].pc = "s_done" /\ life[t].spawned => life[t].sawReady
    /\ life[t].pc = "s_wait" => life[t].spawned

C13_Witness ==
  \E t \in LifeTasks, u \in LifeTasks :
    /\ life[t].pc = "s_done" /\ life[t].spawned /\ life[t].sawReady
    /\ life[u].pc = "s_done" /\ ~life[u].spawned /\ ~life[u].sawReady

\* C14: a stop() called while _runner is None returns at once and changes
\* nothing; when a stop() that found a runner returns or raises, _runner is
\* None, ready is clear and no channel is cached; a start() called with _runner
\* None spawns a runner task and waits, ready being clear.  (A stop() that is
\* cancelled while it closes the client has not completed.)
C14_StopClearsState ==
  [][ \A t \in LifeTasks :
        /\ life[t].pc \in LifeRest /\ life'[t].pc = "st_returned"
             /\ life'[t] # life[t] =>
             /\ runner = "none"
             /\ UNCHANGED <<clientVars, pending, future, message, pc, reqOut,
                            edits, shown, handler>>
        /\ life[t].pc \in LifeRest /\ runner = "none" /\ life'[t] # life[t] =>
             life'[t].pc \notin {"st_close", "st_await", "st_raised"}
        /\ life[t].pc \in {"st_close", "st_await"}
             /\ life'[t].pc \in {"st_returned", "st_raised"} =>
             runner' = "none" /\ ~ready' /\ ~channel'
        /\ life[t].pc \in LifeRest /\ life'[t].pc \in {"s_wait", "s_done"}
             /\ life'[t] # life[t] /\ runner = "none" =>
             runner' = "running" /\ life'[t].pc = "s_wait" /\ ~ready
    ]_vars

\* a stop() raised after a channel had been cached for a prompt, and the next
\* start() spawned a new runner and waits for ready
C14_Witness ==
  \E t \in LifeTasks, u \in LifeTasks, c \in Calls :
    /\ life[t].pc = "st_raised" /\ message[c] # 0
    /\ life[u].pc = "s_wait" /\ life[u].spawned
    /\ runner = "running" /\ ~ready /\ ~channel

\* some Discord option is given on the command line or in the environment
DiscordGiven(o) ==
  o.token # "unset" \/ o.channel # UnsetChannel \/ o.flag # <<>> \/ o.env # <<>>

\* a token, a channel id and a non-empty set of approver ids are given
DiscordComplete(o) ==
  /\ HasToken(o) /\ HasChannel(o)
  /\ ApproverValues(o) # <<>>
  /\ \A i \in 1..Len(ApproverValues(o)) : IsInt(ApproverValues(o)[i])

\* C15 as stated: once the server command has run, write mode with the no-op
\* manager means the override was given; without the override write mode
\* means a Discord manager from a complete Discord configuration; without the
\* override and without any Discord option the server runs read-only; and
\* whenever a Discord option is given but the configuration is not complete,
\* the command aborts.
C15_IncompleteDiscordAborts ==
  cli.outcome # "none" =>
    /\ cli.outcome = "serving" /\ allow_write /\ approval_manager = "noop" =>
         cli.jesus
    /\ ~cli.jesus /\ cli.outcome = "serving" /\ allow_write =>
         approval_manager = "discord" /\ DiscordComplete(cli)
    /\ ~cli.jesus /\ ~DiscordGiven(cli) =>
         cli.outcome = "serving" /\ ~allow_write /\ approval_manager = "noop"
    /\ DiscordGiven(cli) /\ ~DiscordComplete(cli) => cli.outcome = "aborted"

\* C15 amended: with the override the server always starts, write mode on,
\* with the no-op manager, whatever Discord options are given; write mode with
\* the no-op manager means the override was given; without the override write
\* mode means a Discord manager from a complete Discord configuration, no
\* non-empty Discord option means a read-only server, and some but not all of
\* token, channel id and approver ids means the command aborts and no server
\* is started.
C15_WriteModeByOverrideOrDiscord ==
  cli.outcome # "none" =>
    /\ cli.outcome = "serving" /\ allow_write /\ approval_manager = "noop" =>
         cli.jesus
    /\ cli.jesus =>
         cli.outcome = "serving" /\ allow_write /\ approval_manager = "noop"
    /\ ~cli.jesus /\ cli.outcome = "serving" /\ allow_write =>
         approval_manager = "discord" /\ DiscordComplete(cli)
    /\ ~cli.jesus /\ ~HasToken(cli) /\ ~HasChannel(cli)
         /\ ApproverValues(cli) = <<>> =>
         cli.outcome = "serving" /\ ~allow_write /\ approval_manager = "noop"
    /\ ~cli.jesus /\ (HasToken(cli) \/ HasChannel(cli) \/ ApproverValues(cli) # <<>>)
         /\ ~DiscordComplete(cli) =>
         cli.outcome = "aborted"
    /\ cli.outcome = "aborted" =>
         ~allow_write /\ approval_manager = "none" /\ exposed = {}
    /\ cli.outcome = "serving" => exposed = register_tools(allow_write)

\* token and channel id given, the approvers variable parses to nothing
C15_Witness ==
  /\ cli.outcome = "aborted" /\ ~cli.jesus
  /\ HasToken(cli) /\ HasChannel(cli)
  /\ cli.flag = <<>> /\ cli.env # <<>> /\ ApproverValues(cli) = <<>>

\* C16: when a _finalize_message call leaves the prompt as it was (its edit
\* failed), the decision stands: in the reaction path the future, if still
\* pending, is resolved with the decision of the reaction; in the timeout path
\* require() returns EXPIRED and in the attach-failure path DENIED; require()
\* raises only before a prompt exists, and what it returns after a reaction is
\* the decision the future holds.
C16_EditFailureKeepsDecision ==
  [][ \A c \in Calls :
        /\ Len(edits'[c]) = Len(edits[c]) + 1 /\ shown'[c] = shown[c] =>
             LET e == edits'[c][Len(edits'[c])] IN
               /\ e.note = "reaction" /\ future[c] = "pending" =>
                    future'[c] = e.decision
               /\ e.note = "timeout" => reqOut'[c] = "EXPIRED"
               /\ e.note = "reactions" => reqOut'[c] = "DENIED"
        /\ reqOut'[c] = "raised" => edits'[c] = <<>> /\ message'[c] = 0
        /\ reqOut'[c] \in {"APPROVED", "DENIED"} /\ approval_manager = "discord"
             /\ ~attachFailed'[c] => reqOut'[c] = future'[c]
    ]_vars

\* the edit for an approval failed, the prompt still shows the request as
\* pending, and the tool ran
C16_Witness ==
  \E c \in Calls :
    /\ Len(edits[c]) = 1 /\ edits[c][1].note = "reaction"
    /\ edits[c][1].decision = "APPROVED" /\ shown[c] = "pending"
    /\ future[c] = "APPROVED" /\ reqOut[c] = "APPROVED" /\ pc[c] = "returned"

\* C17: a reaction event of the bot itself, in a channel other than the
\* configured one, on a message without pending entry, or with a symbol other
\* than the two decision symbols changes nothing: the pending map, every
\* future, every prompt, the reactions removed, the handler tasks and the tool
\* calls are as before.
C17_IgnoredReactionChangesNothing ==
  [][ \A h \in Handlers :
        /\ ReactionSeen(h, lastEvent'.msg, lastEvent'.channel,
                        lastEvent'.emoji, lastEvent'.user)
        /\ \/ lastEvent'.user = BotUser
           \/ lastEvent'.channel # ChannelId
           \/ lastEvent'.msg \notin pending
           \/ lastEvent'.emoji \notin {"check", "cross"}
        => UNCHANGED <<pending, future, edits, shown, removals, handler,
                       invalidState, pc, reqOut, message, nEvents>>
    ]_vars

\* the bot's own check mark on a pending prompt was the last event, and the
\* request still waits, untouched
C17_Witness ==
  \E c \in Calls :
    /\ lastEvent = [msg |-> message[c], channel |-> ChannelId,
                    emoji |-> "check", user |-> BotUser]
    /\ message[c] \in pending /\ future[c] = "pending" /\ pc[c] = "r_wait"
    /\ edits[c] = <<>> /\ shown[c] = "pending" /\ removals = {}
    /\ \A h \in Handlers : handler[h].pc = "idle"

\* C18: with a progress token, the progress updates of a call are the initial
\* update (0 of 1, waiting), sent before require() is called, then keep-alive
\* updates (0 of 1) only, each sent while require() is pending, then one final
\* update (1 of 1) that tells whether the reviewer approved, and nothing after
\* it; a call that got a decision and went on to the tool function or to the
\* warning has sent the final update.  Without a token there is no update.
IsKeepaliveUpdate(u) == u.progress = 0 /\ u.total = 1 /\ u.message = "elapsed"

IsFinalUpdate(u) == u.progress = 1 /\ u.total = 1

ProgressInOrder(c) ==
  LET p == progress[c] IN
  /\ ~hasToken[c] => p = <<>>
  /\ hasToken[c] /\ requireCalls[c] > 0 => p # <<>>
  /\ p # <<>> => p[1] = ProgressInitial
  /\ \A i \in 2..Len(p) :
        \/ IsKeepaliveUpdate(p[i])
        \/ /\ i = Len(p)
           /\ reqOut[c] \in Decisions
           /\ p[i] = [progress |-> 1, total |-> 1, seconds |-> 0,
                      message |-> IF reqOut[c] = "APPROVED" THEN "approved"
                                  ELSE "not_approved"]
  /\ hasToken[c] /\ IsWrite(tool[c])
       /\ pc[c] \in {"w_func", "w_warning", "returned", "PermissionError",
                     "TimeoutError"}
       => p # <<>> /\ IsFinalUpdate(p[Len(p)])

C18_ProgressUpdatesInOrder ==
  /\ [](\A c \in DOMAIN pc : ProgressInOrder(c))
  /\ [][\A c \in DOMAIN pc :
          /\ Len(progress'[c]) > Len(progress[c])
          /\ IsKeepaliveUpdate(progress'[c][Len(progress'[c])])
          => pc[c] \in InRequire /\ pc'[c] = pc[c]]_vars

C18_Witness ==
  \E c \in DOMAIN pc :
    /\ Len(progress[c]) >= 3
    /\ IsKeepaliveUpdate(progress[c][2])
    /\ IsFinalUpdate(progress[c][Len(progress[c])])
    /\ reqOut[c] = "DENIED"

\* C19: a call of a write tool whose context parameter is bound to a value
\* that is neither a SchwabContext nor an MCP context, or is not bound at all,
\* fails with a type error before any approval work: require() is not called,
\* no progress update is sent and the tool function is not invoked.
BadContextCall(c) ==
  /\ pc[c] # "idle"
  /\ tool[c] \in exposed
  /\ IsWrite(tool[c])
  /\ ctxArg[c] \in {"other", "unbound"}

NoApprovalWork(c) ==
  /\ requireCalls[c] = 0
  /\ progress[c] = <<>>
  /\ funcCalls[c] = 0
  /\ keepalive[c] = "none"
  /\ message[c] = 0

C19_BadContextTypeError ==
  \A c \in DOMAIN pc :
    BadContextCall(c) => pc[c] = "TypeError" /\ NoApprovalWork(c)

\* the wrapper's own failure, with nothing of the approval started
C19_Witness ==
  \E c \in DOMAIN pc :
    /\ BadContextCall(c)
    /\ ctxArg[c] = "other"
    /\ pc[c] = "RuntimeError"
    /\ NoApprovalWork(c)
    /\ approval_manager = "discord"

\* C20: when the lifespan exits, the database stop, the approval manager's
\* stop() and the client's session close have each been attempted exactly
\* once, in that order, also after an earlier step raised; every step that
\* raised is logged, and the only exception that leaves the lifespan is the
\* one its body raised.  (A step that is cancelled ends the lifespan with the
\* cancellation.)
RaisedSteps == {i \in DOMAIN span.results : span.results[i] = "raise"}

C20_TeardownRunsEveryStep ==
  /\ Len(span.attempts) <= Len(TeardownOrder)
  /\ \A i \in DOMAIN span.attempts : span.attempts[i] = TeardownOrder[i]
  /\ \A i \in DOMAIN span.attempts :
        i < Len(span.attempts) => span.results[i] \in {"ok", "raise"}
  /\ span.pc \in {TeardownOrder[i] : i \in DOMAIN TeardownOrder}
       => span.pc = TeardownOrder[Len(span.attempts) + 1]
  /\ Len(span.logs) = Cardinality(RaisedSteps)
  /\ {span.logs[i] : i \in DOMAIN span.logs}
       = {TeardownLog(span.attempts[i]) : i \in RaisedSteps}
  /\ span.pc = "exited"
       => /\ span.attempts = TeardownOrder
          /\ span.propagated = IF span.body = "raise" THEN "body"
                                ELSE IF span.body = "cancel" THEN "cancelled"
                                ELSE "none"

C20_Witness ==
  /\ span.pc = "exited"
  /\ span.body = "return"
  /\ span.results = <<"raise", "raise", "raise">>
  /\ span.attempts = TeardownOrder
  /\ Len(span.logs) = 3
  /\ span.propagated = "none"

\* C21: load_async returns the cached token without a query exactly when a
\* token is cached and its age is below cache_ttl; in every other case (no
\* cache, a stale cache, after invalidate_cache) it queries the database,
\* and when the query yields a token that token replaces the cached one, is
\* returned, and the age of the cache starts again.
C21_LoadAsyncUsesFreshCache ==
  [][\A t \in TokTasks :
       /\ /\ tokTask[t].pc = "idle"
          /\ tokTask'[t] # tokTask[t]
          /\ tokTask'[t].op = "load_async"
          => IF cachedToken.some /\ wall - cacheTime < CacheTtl
             THEN /\ tokTask'[t].pc = "idle"
                  /\ ~tokTask'[t].queried
                  /\ tokTask'[t].ret = Result("token", cachedToken.value)
                  /\ UNCHANGED <<cachedToken, cacheTime, tokenRow>>
             ELSE /\ tokTask'[t].pc = "l_query"
                  /\ tokTask'[t].queried
       /\ /\ tokTask[t].pc = "l_query"
          /\ tokTask'[t].pc = "idle"
          /\ tokTask'[t].ret.kind = "token"
          => /\ tokenRow.present
             /\ tokenRow.data.kind = "object"
             /\ tokTask'[t].ret.value = tokenRow.data.members
             /\ cachedToken' = CacheOf(tokenRow.data.members)
             /\ cacheTime' = wall
             /\ wall' - cacheTime' = 0
    ]_vars

C21_Witness ==
  \E t, u \in TokTasks :
    /\ tokTask[t].op = "load_async" /\ tokTask[t].pc = "idle"
    /\ tokTask[t].queried
    /\ tokTask[t].ret = Result("token", TokenB)
    /\ tokTask[u].op = "load_async" /\ tokTask[u].pc = "idle"
    /\ ~tokTask[u].queried
    /\ tokTask[u].ret = Result("token", TokenB)
    /\ cachedToken = CacheOf(TokenB)
    /\ cacheTime >= CacheTtl

\* C22: write_async with an empty token changes neither the row nor the
\* cache.  With another token it upserts the row of the storage key and then
\* sets the cache, so that load() and load_async() called next return that
\* token; when the database write fails the cache stays as it was.
C22_WriteAsyncSetsRowThenCache ==
  [][\A t \in TokTasks :
       /\ /\ tokTask[t].pc = "idle"
          /\ tokTask'[t] # tokTask[t]
          /\ tokTask'[t].op = "write_async"
          => /\ UNCHANGED <<cachedToken, cacheTime, tokenRow>>
             /\ tokTask'[t].pc = "idle" <=> tokTask'[t].arg = EmptyToken
       /\ /\ tokTask[t].pc = "w_upsert"
          /\ tokTask'[t].pc = "idle"
          => IF tokTask'[t].ret.kind = "None"
             THEN /\ tokenRow' = RowOf(Dumps(tokTask[t].arg))
                  /\ Loads(tokenRow'.data) =
                       [isDict |-> TRUE, value |-> tokTask[t].arg]
                  /\ LoadResult(cachedToken') = Result("token", tokTask[t].arg)
                  /\ cachedToken'.some
                  /\ wall' - cacheTime' < CacheTtl
             ELSE /\ tokTask'[t].ret.kind = "raised"
                  /\ UNCHANGED <<cachedToken, cacheTime, tokenRow>>
    ]_vars

C22_Witness ==
  \E t, u \in TokTasks :
    /\ tokTask[t].op = "write_async" /\ tokTask[t].pc = "idle"
    /\ tokTask[t].arg = TokenA
    /\ tokTask[t].ret.kind = "None"
    /\ tokenRow = RowOf(Dumps(TokenA))
    /\ tokTask[u].op = "load_async" /\ tokTask[u].pc = "idle"
    /\ tokTask[u].ret = Result("token", TokenA)
    /\ ~tokTask[u].queried

\* C23: ingest_option_chain never raises a storage error: it returns the
\* snapshot id only when the snapshot insert and, with at least one contract
\* row, the batch insert both completed, and None otherwise; with the no-op
\* database manager or data that is no dictionary it makes no database call.
C23_IngestIsFailSafe ==
  /\ ingest.ret.kind \in {"none", "None", "id", "CancelledError"}
  /\ ingest.ret.kind = "CancelledError"
       => "cancelled" \in {ingest.snapshot, ingest.batch}
  /\ ingest.pc = "done" => ingest.ret.kind # "none"
  /\ ingest.ret.kind = "id"
       => /\ ingest.snapshot = "ok"
          /\ ingest.ret.id \in SnapshotIds
          /\ IF ContractRows(ingest.data) > 0
             THEN ingest.batch = "ok" /\ ingest.calls = <<"execute", "execute_many">>
             ELSE ingest.batch = "none" /\ ingest.calls = <<"execute">>
  /\ ingest.pc # "idle" /\ (ingest.db = "noop" \/ ~ingest.data.isDict)
       => ingest.calls = <<>> /\ ingest.ret = Returned("None", 0)

C23_Witness ==
  /\ ingest.pc = "done"
  /\ ingest.snapshot = "ok"
  /\ ingest.batch = "raised"
  /\ ingest.ret = Returned("None", 0)
  /\ ContractRows(ingest.data) = 2

\* C24: the window passed to the broker has both dates set and does not end
\* before it starts: without dates it is today and today + 60 days; with
\* from_date only it ends 60 days after from_date; with to_date only it
\* starts at the earlier of today and to_date; and a to_date before from_date
\* is replaced by from_date.
C24_WindowIsNormalized ==
  win.done /\ win.out.err = "none" =>
    /\ win.out.from # NoDate /\ win.out.to # NoDate
    /\ win.out.from \in 0..DateMax /\ win.out.to \in 0..DateMax
    /\ win.out.from <= win.out.to
    /\ win.from = NoDate /\ win.to = NoDate
         => win.out.from = win.today /\ win.out.to = win.today + WindowDays
    /\ win.from # NoDate /\ win.to = NoDate
         => win.out.from = win.from /\ win.out.to = win.from + WindowDays
    /\ win.from = NoDate /\ win.to # NoDate
         => /\ win.out.to = win.to
            /\ win.out.from = IF win.today < win.to THEN win.today ELSE win.to
    /\ win.from # NoDate /\ win.to # NoDate
         => /\ win.out.from = win.from
            /\ win.out.to = IF win.to < win.from THEN win.from ELSE win.to

C24_Witness ==
  /\ win.done
  /\ win.from = 100 /\ win.to = 41
  /\ win.out = Window(100, 100)

\* C25: while a prompt is posted and its request is not resolved, a check or
\* cross reaction of an authorized user on it, in the configured channel,
\* starts the finalization of that request: it is never dropped for want of
\* a pending entry.
C25_PostedPromptReactionDecides ==
  [][ \A h \in Handlers, c \in Calls :
        /\ ReactionSeen(h, lastEvent'.msg, lastEvent'.channel,
                        lastEvent'.emoji, lastEvent'.user)
        /\ message[c] # 0 /\ lastEvent'.msg = message[c]
        /\ pc[c] \in {"r_react1", "r_react2", "r_wait"}
        /\ ~Done(future[c]) /\ ~timedOut[c]
        /\ lastEvent'.channel = ChannelId
        /\ lastEvent'.emoji \in {"check", "cross"}
        /\ lastEvent'.user # BotUser /\ Authorized(lastEvent'.user)
        => /\ handler'[h].pc = "finalizing"
           /\ handler'[h].msg = message[c]
           /\ handler'[h].dec = DecisionOf(lastEvent'.emoji)
    ]_vars

\* an approver's check mark arrived on the posted prompt while the bot was
\* still attaching its own reactions: nothing was started for it
C25_Witness ==
  \E c \in Calls :
    /\ pc[c] \in {"r_react1", "r_react2"}
    /\ message[c] # 0 /\ message[c] \notin pending
    /\ lastEvent.msg = message[c] /\ lastEvent.channel = ChannelId
    /\ lastEvent.emoji = "check"
    /\ lastEvent.user # BotUser /\ Authorized(lastEvent.user)
    /\ \A h \in Handlers : handler[h].pc = "idle"

ConnectionClass == {"OSError", "ConnectionResetError", "InterfaceError"}

\* what the call raised to its caller
SqlRaised ==
  IF sql.second # "none" THEN sql.second
  ELSE IF sql.started # "none" THEN sql.started
  ELSE sql.first

\* C27: one execute or execute_many call runs the statement at most twice.
\* It runs it a second time exactly when the first run failed with an
\* OSError or an InterfaceError and the one reconnect (stop, then start)
\* succeeded; an error of another class, a failed start of the reconnect and
\* a failure of the second run go to the caller without another reconnect.
C27_ReconnectOnceRetryOnce ==
  /\ sql.runs <= 2 /\ sql.stops <= 1 /\ sql.starts <= 1
  /\ sql.starts <= sql.stops
  /\ sql.stops = 1 <=> sql.first \in ConnectionClass
  /\ sql.runs = 2 <=> (sql.first \in ConnectionClass /\ sql.started = "ok")
  /\ sql.runs = 2 => sql.stops = 1 /\ sql.starts = 1
  /\ sql.pc = "returned" =>
       \/ sql.first = "ok" /\ sql.runs = 1
       \/ sql.second = "ok" /\ sql.runs = 2
  /\ sql.pc = "raised" =>
       \/ sql.first \in SqlErrors \ ConnectionClass /\ sql.runs = 1
            /\ sql.stops = 0 /\ SqlRaised = sql.first
       \/ sql.first \in ConnectionClass /\ sql.started \in SqlErrors
            /\ sql.runs = 1 /\ SqlRaised = sql.started
       \/ sql.first \in ConnectionClass /\ sql.started = "ok"
            /\ sql.second \in SqlErrors /\ sql.runs = 2
            /\ SqlRaised = sql.second
  /\ sql.first \in SqlErrors \ ConnectionClass => sql.pc = "raised"
  /\ sql.started \in SqlErrors => sql.pc = "raised"
  /\ sql.second \in SqlErrors => sql.pc = "raised"

\* the first run lost the connection, the reconnect went through and the
\* second run lost it again: the error went to the caller
C27_Witness ==
  /\ sql.pc = "raised" /\ sql.op = "execute_many"
  /\ sql.first = "InterfaceError" /\ sql.started = "ok"
  /\ sql.second = "OSError"
  /\ sql.runs = 2 /\ sql.stops = 1 /\ sql.starts = 1

\* C28: once require() has returned a decision for a posted prompt, the
\* content last written to the prompt shows that decision, however the
\* reactions of approvers and the timeout interleave.
C28_PromptShowsReturnedDecision ==
  \A c \in Calls :
    /\ message[c] # 0 /\ ~cancelled[c]
    /\ reqOut[c] \in {"APPROVED", "DENIED", "EXPIRED"}
    /\ shown[c] # "pending"
    => shown[c] = reqOut[c]

\* the caller got EXPIRED and the prompt, edited last by the handler of a
\* reaction that came in before the timeout, shows the request as approved
C28_Witness ==
  \E c \in Calls :
    /\ reqOut[c] = "EXPIRED" /\ timedOut[c]
    /\ shown[c] = "APPROVED"
    /\ Len(edits[c]) = 2
    /\ edits[c][1].decision = "EXPIRED" /\ edits[c][2].decision = "APPROVED"

C30_StartedManagerIsStopped ==
  /\ span.pc = "serving" => span.started = <<"approval", "db">>
  /\ span.pc \in {"exited", "failed"} /\ span.started # <<>>
       => \E i \in DOMAIN span.attempts : span.attempts[i] = "td_approval"

\* db_manager.start() raised after approval_manager.start() had completed:
\* the lifespan ended with that exception and no teardown step was run
C30_Witness ==
  /\ span.pc = "failed" /\ span.propagated = "startup"
  /\ span.started = <<"approval">>
  /\ span.attempts = <<>>

====
